---- MODULE Spec2Model ----
(***************************************************************************)
(* CyberAudit assessment pipeline: the probe orchestrator (main.py,        *)
(* start_scan), the five probes' outcome under network failure            *)
(* (scanners/*.py) and the scoring engine (utils/scoring.py).             *)
(*                                                                         *)
(* calculate_total_score works on Python floats (the weights are the       *)
(* literals 0.25, 0.20, 0.10), so the model carries IEEE-754 binary64      *)
(* arithmetic: a float is sign * mantissa * 2^exponent with a 53 bit       *)
(* mantissa, every operation is the exact result rounded to nearest, ties  *)
(* to even.  TLC integers are 32 bit wide, so mantissas are little-endian  *)
(* sequences of 15 bit limbs.                                              *)
(***************************************************************************)
EXTENDS Integers, Sequences, FiniteSets, TLC

----------------------------------------------------------------------------
(* Multi-limb naturals: <<>> is zero, the last limb is never zero.         *)

LimbBits == 15
LimbBase == 32768
MantBits == 53

RECURSIVE Pow2(_)
Pow2(n) == IF n = 0 THEN 1 ELSE 2 * Pow2(n - 1)

RECURSIVE BNorm(_)
BNorm(a) ==
    IF a = <<>> THEN <<>>
    ELSE IF a[Len(a)] = 0 THEN BNorm(SubSeq(a, 1, Len(a) - 1))
    ELSE a

RECURSIVE BFromNat(_)
BFromNat(n) == IF n = 0 THEN <<>> ELSE <<n % LimbBase>> \o BFromNat(n \div LimbBase)

RECURSIVE BToNat(_)
BToNat(a) == IF a = <<>> THEN 0 ELSE Head(a) + LimbBase * BToNat(Tail(a))

RECURSIVE BAddC(_, _, _)
BAddC(a, b, c) ==
    IF a = <<>> /\ b = <<>> THEN (IF c = 0 THEN <<>> ELSE <<c>>)
    ELSE LET x == IF a = <<>> THEN 0 ELSE Head(a)
             y == IF b = <<>> THEN 0 ELSE Head(b)
             s == x + y + c
         IN  <<s % LimbBase>> \o
             BAddC(IF a = <<>> THEN <<>> ELSE Tail(a),
                   IF b = <<>> THEN <<>> ELSE Tail(b), s \div LimbBase)

BAdd(a, b) == BAddC(a, b, 0)

(* a - b for a >= b *)
RECURSIVE BSubC(_, _, _)
BSubC(a, b, c) ==
    IF a = <<>> THEN <<>>
    ELSE LET y == IF b = <<>> THEN 0 ELSE Head(b)
             d == Head(a) - y - c
         IN  <<IF d < 0 THEN d + LimbBase ELSE d>> \o
             BSubC(Tail(a), IF b = <<>> THEN <<>> ELSE Tail(b),
                   IF d < 0 THEN 1 ELSE 0)

BSub(a, b) == BNorm(BSubC(a, b, 0))

(* -1, 0, 1 as a < b, a = b, a > b; both normalised *)
RECURSIVE BCmpFrom(_, _, _)
BCmpFrom(a, b, i) ==
    IF i = 0 THEN 0
    ELSE IF a[i] < b[i] THEN -1
    ELSE IF a[i] > b[i] THEN 1
    ELSE BCmpFrom(a, b, i - 1)

BCmp(a, b) ==
    IF Len(a) < Len(b) THEN -1
    ELSE IF Len(a) > Len(b) THEN 1
    ELSE BCmpFrom(a, b, Len(a))

RECURSIVE BMulSmall(_, _, _)
BMulSmall(a, k, c) ==
    IF a = <<>> THEN (IF c = 0 THEN <<>> ELSE <<c>>)
    ELSE LET p == Head(a) * k + c
         IN  <<p % LimbBase>> \o BMulSmall(Tail(a), k, p \div LimbBase)

RECURSIVE BMul(_, _)
BMul(a, b) ==
    IF a = <<>> \/ b = <<>> THEN <<>>
    ELSE BNorm(BAdd(BMulSmall(a, Head(b), 0), <<0>> \o BMul(a, Tail(b))))

BShl(a, n) ==
    IF a = <<>> THEN <<>>
    ELSE [i \in 1..(n \div LimbBits) |-> 0] \o BMulSmall(a, Pow2(n % LimbBits), 0)

BShr(a, n) ==
    LET q == n \div LimbBits
        r == n % LimbBits
        lo == Pow2(r)
        hi == Pow2(LimbBits - r)
        len == Len(a) - q
    IN  IF len <= 0 THEN <<>>
        ELSE BNorm([i \in 1..len |->
                (a[q + i] \div lo) +
                (IF q + i < Len(a) THEN (a[q + i + 1] % lo) * hi ELSE 0)])

(* a mod 2^n *)
BLow(a, n) ==
    LET q == n \div LimbBits
        r == n % LimbBits
    IN  IF Len(a) <= q THEN a
        ELSE BNorm(SubSeq(a, 1, q) \o <<a[q + 1] % Pow2(r)>>)

RECURSIVE NatBits(_)
NatBits(n) == IF n = 0 THEN 0 ELSE 1 + NatBits(n \div 2)

BitLen(a) == IF a = <<>> THEN 0 ELSE LimbBits * (Len(a) - 1) + NatBits(a[Len(a)])

BOdd(a) == a # <<>> /\ a[1] % 2 = 1

BOne == <<1>>

(* r0 / d continued for n more quotient bits by shift and subtract, from    *)
(* quotient q0 and remainder r0 < d; result <<quotient, remainder>>        *)
RECURSIVE BDivBits(_, _, _, _)
BDivBits(r0, d, q0, n) ==
    IF n = 0 THEN <<q0, r0>>
    ELSE LET p  == BDivBits(r0, d, q0, n - 1)
             r2 == BAdd(p[2], p[2])
             q2 == BAdd(p[1], p[1])
         IN  IF BCmp(r2, d) >= 0
             THEN <<BAdd(q2, BOne), BSub(r2, d)>>
             ELSE <<q2, r2>>

(* the same for k * ChunkBits more bits, one chunk at a time; once the     *)
(* remainder is zero the remaining quotient bits are zero                  *)
ChunkBits == 14

RECURSIVE BDivChunks(_, _, _, _)
BDivChunks(r0, d, q0, k) ==
    IF k = 0 THEN <<q0, r0>>
    ELSE LET p == BDivChunks(r0, d, q0, k - 1)
         IN  IF p[2] = <<>> THEN <<BShl(p[1], ChunkBits), <<>>>>
             ELSE LET c == BDivBits(p[2], d, <<>>, ChunkBits)
                  IN  <<BAdd(BShl(p[1], ChunkBits), c[1]), c[2]>>

----------------------------------------------------------------------------
(* binary64 values: [s |-> sign bit, m |-> mantissa, e |-> exponent],      *)
(* value (-1)^s * m * 2^e, m = <<>> for zero, otherwise 2^52 <= m < 2^53.  *)
(* The magnitudes met here stay far from the subnormal and overflow range. *)

FZero == [s |-> 0, m |-> <<>>, e |-> 0]

(* exact magnitude M * 2^e (sticky: a nonzero part below M was dropped)    *)
(* rounded to nearest, ties to even                                        *)
FRound(s, M, e, sticky) ==
    LET L == BitLen(M)
    IN  IF L = 0 THEN FZero
        ELSE IF L <= MantBits
        THEN [s |-> s, m |-> BShl(M, MantBits - L), e |-> e - (MantBits - L)]
        ELSE LET sh   == L - MantBits
                 q    == BShr(M, sh)
                 rem  == BLow(M, sh)
                 half == BShl(BOne, sh - 1)
                 c    == BCmp(rem, half)
                 up   == c > 0 \/ (c = 0 /\ (sticky \/ BOdd(q)))
                 q1   == IF up THEN BAdd(q, BOne) ELSE q
             IN  IF BitLen(q1) > MantBits
                 THEN [s |-> s, m |-> BShr(q1, 1), e |-> e + sh + 1]
                 ELSE [s |-> s, m |-> q1, e |-> e + sh]

(* float(n) for an int n *)
FFromInt(n) ==
    FRound(IF n < 0 THEN 1 ELSE 0, BFromNat(IF n < 0 THEN -n ELSE n), 0, FALSE)

FMul(a, b) ==
    IF a.m = <<>> \/ b.m = <<>> THEN FZero
    ELSE FRound((a.s + b.s) % 2, BMul(a.m, b.m), a.e + b.e, FALSE)

FAdd(a, b) ==
    IF a.m = <<>> THEN b
    ELSE IF b.m = <<>> THEN a
    ELSE LET e0 == IF a.e < b.e THEN a.e ELSE b.e
             x  == BShl(a.m, a.e - e0)
             y  == BShl(b.m, b.e - e0)
             c  == BCmp(x, y)
         IN  IF a.s = b.s THEN FRound(a.s, BAdd(x, y), e0, FALSE)
             ELSE IF c = 0 THEN FZero
             ELSE IF c > 0 THEN FRound(a.s, BSub(x, y), e0, FALSE)
             ELSE FRound(b.s, BSub(y, x), e0, FALSE)

(* a / b, b nonzero: 56 quotient bits below the leading one, more than the *)
(* 53 of the mantissa plus a rounding bit; the remainder is the sticky bit *)
QuotChunks == 4


FDiv(a, b) ==
    IF a.m = <<>> THEN FZero
    ELSE LET ge == BCmp(a.m, b.m) >= 0
             r0 == IF ge THEN BSub(a.m, b.m) ELSE a.m
             q0 == IF ge THEN BOne ELSE <<>>
             qr == BDivChunks(r0, b.m, q0, QuotChunks)
         IN  FRound((a.s + b.s) % 2, qr[1], a.e - b.e - QuotChunks * ChunkBits,
                    qr[2] # <<>>)

FPositive(a) == a.m # <<>> /\ a.s = 0

(* int(x): truncation toward zero *)
FTrunc(a) ==
    LET mag == IF a.m = <<>> THEN 0
               ELSE IF a.e >= 0 THEN BToNat(BShl(a.m, a.e))
               ELSE BToNat(BShr(a.m, -a.e))
    IN  IF a.s = 1 THEN -mag ELSE mag

----------------------------------------------------------------------------
(* ProbeKind -> ProbeResult mappings.  A result is a record; a key the     *)
(* Python dict may lack is an option: <<>> when absent, <<v>> when present. *)

Kinds == {"ssl", "ports", "headers", "cms", "ddos"}

(* iteration order of self.weights (insertion order of the dict literal)   *)
WeightOrder == <<"ssl", "ports", "headers", "cms", "ddos">>

WeightPct == [k \in Kinds |->
                 CASE k = "ssl"     -> 25
                   [] k = "ports"   -> 20
                   [] k = "headers" -> 25
                   [] k = "cms"     -> 20
                   [] k = "ddos"    -> 10]

(* the float literals 0.25, 0.20, 0.25, 0.20, 0.10: the binary64 value     *)
(* nearest to the decimal fraction                                         *)
weights == [k \in Kinds |-> FDiv(FFromInt(WeightPct[k]), FFromInt(100))]

(* sum of f over the finite set S *)
RECURSIVE SumOver(_, _)
SumOver(S, f) ==
    IF S = {} THEN 0
    ELSE LET k == CHOOSE j \in S : TRUE IN f[k] + SumOver(S \ {k}, f)

Min(a, b) == IF a < b THEN a ELSE b
Max(a, b) == IF a > b THEN a ELSE b

(* Python truthiness of dict.get('error'): None and '' are falsy           *)
Truthy(opt) == opt # <<>> /\ opt[1] # ""

(* dict.get('score', 0) *)
GetScore(res) == IF res.score = <<>> THEN 0 ELSE res.score[1]

(* the loop of calculate_total_score after the first i weights; raised     *)
(* when "score * weight" has thrown (the score is not a number), which     *)
(* ends the loop                                                           *)
RECURSIVE ScoreLoop(_, _)
ScoreLoop(scan_results, i) ==
    IF i = 0 THEN [total_score |-> FZero, total_weight |-> FZero, raised |-> FALSE]
    ELSE LET acc       == ScoreLoop(scan_results, i - 1)
             scan_type == WeightOrder[i]
             weight    == weights[scan_type]
         IN  IF acc.raised THEN acc
             ELSE IF scan_type \in DOMAIN scan_results
                     /\ ~Truthy(scan_results[scan_type].error)
             THEN IF scan_results[scan_type].score # <<>>
                     /\ ~scan_results[scan_type].score_is_number
                  THEN [acc EXCEPT !.raised = TRUE]
                  ELSE [acc EXCEPT
                           !.total_score  = FAdd(@, FMul(FFromInt(GetScore(scan_results[scan_type])),
                                                         weight)),
                           !.total_weight = FAdd(@, weight)]
             ELSE acc

(* the final max(0, min(final_score, 100)) left out                        *)
calculate_total_score_NoClamp(scan_results) ==
    LET acc == ScoreLoop(scan_results, Len(WeightOrder))
    IN  IF acc.raised THEN 0
        ELSE IF FPositive(acc.total_weight)
        THEN FTrunc(FDiv(acc.total_score, acc.total_weight))
        ELSE 0

(* calculate_total_score: the except branch returns 0                      *)
calculate_total_score(scan_results) ==
    LET acc == ScoreLoop(scan_results, Len(WeightOrder))
        final_score == IF FPositive(acc.total_weight)
                       THEN FTrunc(FDiv(acc.total_score, acc.total_weight))
                       ELSE 0
    IN  IF acc.raised THEN 0 ELSE Max(0, Min(final_score, 100))

----------------------------------------------------------------------------
(* Shapes of the result dicts.                                             *)

(* every scanner's _determine_status *)
determine_status(score) ==
    IF score >= 80 THEN "good"
    ELSE IF score >= 60 THEN "warning"
    ELSE "critical"

(* a scanner's normal return value, reduced to the keys the scorer reads;   *)
(* score_is_number tells whether the value under 'score' is a number;      *)
(* report holds the scanner's other keys, <<>> when the dict has none      *)
SuccessResult(score, status) ==
    [error |-> <<>>, score |-> <<score>>, status |-> <<status>>,
     score_is_number |-> TRUE, report |-> <<>>]

(* the result dict with the scanner's other keys filled in *)
WithReport(result, report) == [result EXCEPT !.report = <<report>>]

(* {"error": msg}: start_scan's except branch, and the scanners' early     *)
(* returns                                                                 *)
ErrorOnly(msg) ==
    [error |-> <<msg>>, score |-> <<>>, status |-> <<>>, score_is_number |-> TRUE,
     report |-> <<>>]

(* {"error": msg, "score": 0, "status": "error"}: a scanner's own except   *)
(* branch                                                                  *)
ScannerError(msg) ==
    [error |-> <<msg>>, score |-> <<0>>, status |-> <<"error">>,
     score_is_number |-> TRUE, report |-> <<>>]

(* a dict whose 'score' is not a number, such as {"score": "high"}         *)
NonNumericScore ==
    [error |-> <<>>, score |-> <<0>>, status |-> <<"good">>,
     score_is_number |-> FALSE, report |-> <<>>]

----------------------------------------------------------------------------
(* The probes.  A target is the request URL after start_scan's prefixing,  *)
(* reduced to what urlparse gives the scanners: the scheme and whether a   *)
(* hostname can be extracted.  What the network answers is the probe's     *)
(* observation, an input of the model.                                     *)

Targets == [scheme : {"http", "https"}, host : BOOLEAN]

Bool2Int(b) == IF b THEN 1 ELSE 0

(* ---- SSLScanner ---- *)

TLSVersions == {"TLSv1.3", "TLSv1.2", "TLSv1.1", "TLSv1"}

(* cert_info, cipher_info: {"error": str(e)} when the connection or the    *)
(* handshake failed                                                        *)
CertError == [error |-> TRUE, expired |-> FALSE, self_signed |-> FALSE,
              key_size |-> 0, expires_soon |-> FALSE]

(* _analyze_certificate calls ssock.getpeercert_chain(), which ssl.SSLSocket *)
(* does not have: once the handshake succeeds the AttributeError is caught *)
(* and the function returns {"error": ...}, as it does when the connection *)
(* fails.  Every cert_info the program can build is CertError.             *)
CertInfos == {CertError}

(* weak_ciphers is the length of the list of that name: the entries of     *)
(* self.weak_ciphers that occur in the name of the negotiated cipher       *)
CipherError == [error |-> TRUE, bits |-> 0, weak_ciphers |-> 0]

CipherInfos ==
    {CipherError} \cup
    [error : {FALSE}, bits : {56, 112, 128, 256}, weak_ciphers : 0..2]

(* _check_protocols: a handshake that fails adds nothing to supported      *)
ProtocolInfo(supported) ==
    [supported        |-> supported,
     weak_protocols   |-> supported \cap {"TLSv1", "TLSv1.1"},
     modern_protocols |-> supported \cap {"TLSv1.3", "TLSv1.2"}]

_calculate_ssl_score(cert_info, protocol_info, cipher_info) ==
    LET base == 20
        cert == IF ~cert_info.error
                THEN 10 * Bool2Int(~cert_info.expired)
                     + 10 * Bool2Int(~cert_info.self_signed)
                     + 5 * Bool2Int(cert_info.key_size >= 2048)
                     + 5 * Bool2Int(~cert_info.expires_soon)
                ELSE 0
        modern == IF "TLSv1.3" \in protocol_info.modern_protocols THEN 15
                  ELSE IF "TLSv1.2" \in protocol_info.modern_protocols THEN 10
                  ELSE 0
        nweak == Cardinality(protocol_info.weak_protocols)
        weak == IF nweak = 0 THEN 15
                ELSE IF nweak = 1 THEN 10
                ELSE IF nweak = 2 THEN 5
                ELSE 0
        strong_cipher == cipher_info.bits >= 256 /\ cipher_info.weak_ciphers = 0
        cipher == IF ~cipher_info.error
                  THEN (IF strong_cipher THEN 15
                        ELSE IF cipher_info.bits >= 128 THEN 10
                        ELSE IF cipher_info.bits >= 64 THEN 5
                        ELSE 0)
                       + 5 * Bool2Int(cipher_info.weak_ciphers = 0)
                  ELSE 0
    IN  Min(base + cert + modern + weak + cipher, 100)

(* what the network answers the SSL probe: net.redirect is the outcome of  *)
(* _check_https_redirect (FALSE also when its request failed)              *)
SSLNets == [redirect : BOOLEAN, cert : CertInfos,
            supported : SUBSET TLSVersions, cipher : CipherInfos]

SSLNetDown == [redirect |-> FALSE, cert |-> CertError, supported |-> {},
               cipher |-> CipherError]

(* the keys of the SSL result the scorer's recommendation rules read;      *)
(* issues is the length of the issues list                                 *)
SSLReport(protocol, cert_info, protocol_info, issues) ==
    [protocol       |-> protocol,
     expires_soon   |-> ~cert_info.error /\ cert_info.expires_soon,
     weak_protocols |-> protocol_info.weak_protocols,
     issues         |-> issues]

ssl_scan(url, net) ==
    IF ~url.host THEN ErrorOnly("no hostname in URL")
    ELSE IF url.scheme = "http"
    THEN WithReport(SuccessResult(IF net.redirect THEN 20 ELSE 0,
                                  IF ~net.redirect THEN "critical" ELSE "warning"),
                    SSLReport("HTTP", CertError, ProtocolInfo({}), 1))
    ELSE LET cert_info     == net.cert
             protocol_info == ProtocolInfo(net.supported)
             cipher_info   == net.cipher
             score  == _calculate_ssl_score(cert_info, protocol_info, cipher_info)
             issues == Bool2Int(~cert_info.error /\ cert_info.expired)
                       + Bool2Int(~cert_info.error /\ cert_info.self_signed)
                       + Cardinality(protocol_info.weak_protocols)
                       + Min(cipher_info.weak_ciphers, 3)
         IN  WithReport(SuccessResult(score, determine_status(score)),
                        SSLReport("HTTPS", cert_info, protocol_info, issues))

(* ---- PortScanner ---- *)

common_ports == <<21, 22, 23, 25, 53, 80, 110, 143, 443, 993, 995, 1433,
                  3306, 3389, 5432, 6379, 27017>>

(* the risk column of self.dangerous_ports *)
dangerous_ports ==
    [p \in {21, 23, 25, 110, 143, 1433, 3306, 3389, 5432, 6379, 27017} |->
        CASE p \in {23, 6379} -> "critical"
          [] p \in {25, 110, 143} -> "medium"
          [] OTHER -> "high"]

(* the service column of self.dangerous_ports *)
dangerous_service(p) ==
    CASE p = 21    -> "FTP"
      [] p = 23    -> "Telnet"
      [] p = 25    -> "SMTP"
      [] p = 110   -> "POP3"
      [] p = 143   -> "IMAP"
      [] p = 1433  -> "MSSQL"
      [] p = 3306  -> "MySQL"
      [] p = 3389  -> "RDP"
      [] p = 5432  -> "PostgreSQL"
      [] p = 6379  -> "Redis"
      [] p = 27017 -> "MongoDB"

(* the service name an open port is reported with: the table of            *)
(* _get_service_by_port, which names the services as nmap does             *)
_get_service_by_port(port) ==
    CASE port = 21    -> "ftp"
      [] port = 22    -> "ssh"
      [] port = 23    -> "telnet"
      [] port = 25    -> "smtp"
      [] port = 53    -> "dns"
      [] port = 80    -> "http"
      [] port = 110   -> "pop3"
      [] port = 143   -> "imap"
      [] port = 443   -> "https"
      [] port = 993   -> "imaps"
      [] port = 995   -> "pop3s"
      [] port = 1433  -> "mssql"
      [] port = 3306  -> "mysql"
      [] port = 3389  -> "rdp"
      [] port = 5432  -> "postgresql"
      [] port = 6379  -> "redis"
      [] port = 27017 -> "mongodb"
      [] OTHER        -> "unknown"

important_ports == <<21, 22, 23, 25, 53, 80, 443, 3389>>

(* the subsequence of ports that are in the set open, in the order of ports *)
RECURSIVE OpenAmong(_, _)
OpenAmong(ports, open) ==
    IF ports = <<>> THEN <<>>
    ELSE (IF Head(ports) \in open THEN <<Head(ports)>> ELSE <<>>)
         \o OpenAmong(Tail(ports), open)

(* the connect scan tries every common port *)
_scan_common_ports_FallbackAll(net) ==
    IF net.nmap_ok THEN OpenAmong(common_ports, net.open)
    ELSE OpenAmong(common_ports, net.open)

(* _scan_common_ports: nmap's open ports, or, when nmap raised, the        *)
(* connect scan of _simple_port_scan                                       *)
_scan_common_ports(net) ==
    IF net.nmap_ok THEN OpenAmong(common_ports, net.open)
    ELSE OpenAmong(important_ports, net.open)

RECURSIVE _analyze_ports(_)

(* the TLS mail ports 993 and 995 counted among the secure ports           *)
_analyze_ports_MailSecure(open_ports) ==
    IF open_ports = <<>>
    THEN [open_ports |-> <<>>, dangerous_ports |-> <<>>, secure_ports |-> <<>>]
    ELSE LET port == open_ports[Len(open_ports)]
             rest == _analyze_ports(SubSeq(open_ports, 1, Len(open_ports) - 1))
         IN  IF port \in DOMAIN dangerous_ports
             THEN [rest EXCEPT !.open_ports = Append(@, port),
                               !.dangerous_ports =
                                   Append(@, [port    |-> port,
                                              service |-> dangerous_service(port),
                                              risk    |-> dangerous_ports[port]])]
             ELSE IF port \in {80, 443, 22, 53, 993, 995}
             THEN [rest EXCEPT !.open_ports = Append(@, port),
                               !.secure_ports = Append(@, port)]
             ELSE [rest EXCEPT !.open_ports = Append(@, port),
                               !.dangerous_ports =
                                   Append(@, [port    |-> port,
                                              service |-> _get_service_by_port(port),
                                              risk    |-> "medium"])]

(* _analyze_ports: the risk of each port classified dangerous, in order,   *)
(* and the ports classified secure                                         *)
_analyze_ports(open_ports) ==
    IF open_ports = <<>>
    THEN [open_ports |-> <<>>, dangerous_ports |-> <<>>, secure_ports |-> <<>>]
    ELSE LET port == open_ports[Len(open_ports)]
             rest == _analyze_ports(SubSeq(open_ports, 1, Len(open_ports) - 1))
         IN  IF port \in DOMAIN dangerous_ports
             THEN [rest EXCEPT !.open_ports = Append(@, port),
                               !.dangerous_ports =
                                   Append(@, [port    |-> port,
                                              service |-> dangerous_service(port),
                                              risk    |-> dangerous_ports[port]])]
             ELSE IF port \in {80, 443, 22, 53}
             THEN [rest EXCEPT !.open_ports = Append(@, port),
                               !.secure_ports = Append(@, port)]
             ELSE [rest EXCEPT !.open_ports = Append(@, port),
                               !.dangerous_ports =
                                   Append(@, [port    |-> port,
                                              service |-> _get_service_by_port(port),
                                              risk    |-> "medium"])]

RiskPenalty(risk) ==
    CASE risk = "critical" -> 25
      [] risk = "high"     -> 15
      [] risk = "medium"   -> 10
      [] OTHER             -> 5

RECURSIVE SumPenalty(_)
SumPenalty(dangerous) ==
    IF dangerous = <<>> THEN 0
    ELSE RiskPenalty(Head(dangerous).risk) + SumPenalty(Tail(dangerous))

(* the final max(0, min(score, 100)) left out                              *)
_calculate_port_score_NoClamp(analysis) ==
    LET nopen == Len(analysis.open_ports)
    IN  100 - SumPenalty(analysis.dangerous_ports)
        - (IF nopen > 10 THEN 10 ELSE IF nopen > 5 THEN 5 ELSE 0)
        + (IF analysis.dangerous_ports = <<>> /\ nopen <= 3 THEN 10 ELSE 0)

_calculate_port_score(analysis) ==
    LET nopen == Len(analysis.open_ports)
        score == 100 - SumPenalty(analysis.dangerous_ports)
                 - (IF nopen > 10 THEN 10 ELSE IF nopen > 5 THEN 5 ELSE 0)
                 + (IF analysis.dangerous_ports = <<>> /\ nopen <= 3 THEN 10 ELSE 0)
    IN  Max(0, Min(score, 100))

(* what the network answers the port probe: whether the name resolves,     *)
(* whether nmap runs, and the set of ports accepting connections           *)
ScanPorts == {21, 22, 23, 25, 80, 993, 3306, 3389, 6379}

PortNets == [resolves : BOOLEAN, nmap_ok : BOOLEAN, open : SUBSET ScanPorts]

PortNetDown == [resolves |-> FALSE, nmap_ok |-> FALSE, open |-> {}]

(* lines 72-104 of scan: what it makes of the open ports it was given     *)
PortResult(open_ports) ==
    LET analysis == _analyze_ports(open_ports)
        score    == _calculate_port_score(analysis)
    IN  WithReport(SuccessResult(score, determine_status(score)),
                   [open_ports      |-> analysis.open_ports,
                    dangerous_ports |-> analysis.dangerous_ports,
                    secure_ports    |-> analysis.secure_ports,
                    issues          |-> Len(analysis.dangerous_ports)])

port_scan(url, net) ==
    IF ~url.host THEN ErrorOnly("no hostname in URL")
    ELSE IF ~net.resolves THEN ErrorOnly("cannot resolve hostname")
    ELSE PortResult(_scan_common_ports(net))

(* ---- HeadersScanner ---- *)

critical_headers == {"strict-transport-security", "content-security-policy",
                     "x-frame-options", "x-content-type-options"}

additional_headers == {"referrer-policy", "permissions-policy",
                       "x-xss-protection", "expect-ct"}

score_weight ==
    [h \in critical_headers \cup additional_headers |->
        CASE h \in {"strict-transport-security", "content-security-policy"} -> 20
          [] h = "x-frame-options" -> 15
          [] h \in {"x-content-type-options", "referrer-policy"} -> 10
          [] OTHER -> 5]

(* the outcomes _validate_header_value can have for a header that is sent: *)
(* "incorrect" (valid False) or valid with a strength                      *)
ValidationOutcomes(h) ==
    CASE h = "strict-transport-security" -> {"incorrect", "warning", "good", "excellent"}
      [] h = "content-security-policy"   -> {"incorrect", "warning", "good"}
      [] h = "x-frame-options"           -> {"incorrect", "good", "excellent"}
      [] h = "x-content-type-options"    -> {"incorrect", "good"}
      [] h = "referrer-policy"           -> {"warning", "good"}
      [] OTHER                           -> {"good"}

(* the float literals 1.1 and 0.7 *)
ExcellentFactor == FDiv(FFromInt(11), FFromInt(10))
WarningFactor == FDiv(FFromInt(7), FFromInt(10))

StrengthFactor(strength) ==
    IF strength = "excellent" THEN ExcellentFactor ELSE WarningFactor

(* header_score of a present header: int(header_score * 1.1) or * 0.7      *)
HeaderScore(h, strength) ==
    IF strength \in {"excellent", "warning"}
    THEN FTrunc(FMul(FFromInt(score_weight[h]), StrengthFactor(strength)))
    ELSE score_weight[h]

(* _calculate_headers_score over the analysis: state[h] is "missing",      *)
(* "incorrect" or the strength of a present header                         *)
_calculate_headers_score(state, dangerous_count, https_analysis) ==
    LET H == critical_headers \cup additional_headers
        present == SumOver(H, [h \in H |->
                       IF state[h] \in {"missing", "incorrect"} THEN 0
                       ELSE HeaderScore(h, state[h])])
        missing == SumOver(H, [h \in H |->
                       IF state[h] = "missing" /\ h \in critical_headers
                       THEN score_weight[h] \div 2 ELSE 0])
        incorrect == 10 * Cardinality({h \in H : state[h] = "incorrect"})
        bonus == IF https_analysis = "permanent" THEN 10
                 ELSE IF https_analysis = "temporary" THEN 5
                 ELSE 0
        score == present - missing - incorrect - dangerous_count * 5 + bonus
    IN  Max(0, Min(score, 100))

(* net.fetch is how _fetch_headers ended; net.redirect is what             *)
(* _analyze_https_redirects saw of the http:// twin of an https URL        *)
FetchErrors == {"timeout", "connect_error", "other_error"}

HeaderStates ==
    {st \in [critical_headers \cup additional_headers ->
                {"missing", "incorrect", "warning", "good", "excellent"}] :
        \A h \in DOMAIN st : st[h] = "missing" \/ st[h] \in ValidationOutcomes(h)}

AllMissing == [h \in critical_headers \cup additional_headers |-> "missing"]

(* the observations the header probe is examined under: every state of the *)
(* critical headers and of referrer-policy, the three remaining headers    *)
(* absent or sent together                                                 *)
HeaderNets ==
    [fetch : FetchErrors, state : {AllMissing}, dangerous : {0},
     redirect : {"none"}]
    \cup
    [fetch : {"ok"},
     state : {st \in HeaderStates :
                 \A h \in {"permissions-policy", "x-xss-protection"} :
                     st[h] = st["expect-ct"]},
     dangerous : {0, 2},
     redirect : {"none", "temporary", "permanent"}]

HeaderNetDown == [fetch |-> "connect_error", state |-> AllMissing,
                  dangerous |-> 0, redirect |-> "none"]

(* a URL without a hostname cannot be fetched: _fetch_headers returns its  *)
(* {'error': ...}, which scan returns as it is                             *)
headers_scan(url, net) ==
    IF ~url.host THEN ErrorOnly("other_error")
    ELSE IF net.fetch \in FetchErrors THEN ErrorOnly(net.fetch)
    ELSE LET https_analysis == IF url.scheme = "https" THEN net.redirect ELSE "none"
             total_score == _calculate_headers_score(net.state, net.dangerous,
                                                     https_analysis)
             H == critical_headers \cup additional_headers
             issues == Cardinality({h \in critical_headers : net.state[h] = "missing"})
                       + Cardinality({h \in H : net.state[h] = "incorrect"})
                       + net.dangerous
         IN  WithReport(SuccessResult(total_score, determine_status(total_score)),
                        [missing   |-> {h \in H : net.state[h] = "missing"},
                         dangerous |-> net.dangerous,
                         issues    |-> issues])

(* ---- DDoSScanner ---- *)

(* _calculate_protection_score: cdn is the provider detected (or "none"),  *)
(* single_ip and rate_detected the flags of dns_info and rate_limit_info   *)
_calculate_protection_score(single_ip, cdn, rate_detected) ==
    LET score == (CASE cdn \in {"cloudflare", "akamai"} -> 50
                    [] cdn = "cloudfront" -> 35
                    [] OTHER -> 0)
                 + (IF ~single_ip THEN 25 ELSE 0)
                 + (IF rate_detected THEN 25 ELSE 0)
    IN  Max(0, Min(score, 100))

(* net.dns: "fail" (resolve raised), "single" or "multi" A records;        *)
(* net.cdn: "fail" (the GET raised), "none" or the provider whose header   *)
(* came back; net.rate: "fail" (the client raised something other than a   *)
(* timeout), "timeout", "429", "header" or "none"                          *)
DDoSNets == [dns : {"fail", "single", "multi"},
             cdn : {"fail", "none", "cloudflare", "cloudfront", "akamai"},
             rate : {"fail", "timeout", "429", "header", "none"}]

DDoSNetDown == [dns |-> "fail", cdn |-> "fail", rate |-> "fail"]

ddos_scan(url, net) ==
    IF ~url.host THEN ErrorOnly("no hostname in URL")
    ELSE LET single_ip == net.dns # "multi"
             cdn == IF net.cdn = "fail" THEN "none" ELSE net.cdn
             rate_detected == net.rate \in {"timeout", "429", "header"}
             score == _calculate_protection_score(single_ip, cdn, rate_detected)
         IN  WithReport(SuccessResult(score, determine_status(score)),
                        [cdn_detected  |-> cdn # "none",
                         rate_detected |-> rate_detected,
                         single_ip     |-> single_ip,
                         issues        |-> Bool2Int(cdn = "none")
                                           + Bool2Int(single_ip)])

(* ---- CMSScanner ---- *)

(* enumeration order of self.cms_signatures *)
cms_order == <<"wordpress", "drupal", "joomla", "magento", "opencart">>

cms_signatures ==
    [c \in {"wordpress", "drupal", "joomla", "magento", "opencart"} |->
        CASE c = "wordpress" ->
                [name     |-> "WordPress",
                 headers  |-> {"x-powered-by"},
                 meta     |-> TRUE,
                 patterns |-> {"/wp-content/themes/", "/wp-content/plugins/"},
                 paths    |-> <<"/wp-admin/", "/wp-content/", "/wp-includes/">>]
          [] c = "drupal" ->
                [name     |-> "Drupal",
                 headers  |-> {"x-drupal-cache", "x-generator"},
                 meta     |-> TRUE,
                 patterns |-> {"/sites/default/files/", "/modules/"},
                 paths    |-> <<"/user/login", "/admin/", "/sites/">>]
          [] c = "joomla" ->
                [name     |-> "Joomla",
                 headers  |-> {},
                 meta     |-> TRUE,
                 patterns |-> {"/media/system/", "/templates/"},
                 paths    |-> <<"/administrator/", "/components/", "/modules/">>]
          [] c = "magento" ->
                [name     |-> "Magento",
                 headers  |-> {},
                 meta     |-> FALSE,
                 patterns |-> {"/skin/frontend/", "/media/catalog/"},
                 paths    |-> <<"/admin/", "/downloader/", "/app/">>]
          [] c = "opencart" ->
                [name     |-> "OpenCart",
                 headers  |-> {},
                 meta     |-> FALSE,
                 patterns |-> {"/catalog/view/theme/"},
                 paths    |-> <<"/admin/", "/catalog/", "/system/">>]]

SeqRange(q) == {q[i] : i \in DOMAIN q}

(* confidence of one candidate: net.headers are the signature headers the  *)
(* response matches, net.meta[c] the version captured by c's generator     *)
(* pattern (<<>> when it does not match), net.patterns the content         *)
(* patterns found, net.paths200 the paths answering 200 when requested,    *)
(* net.path_errors the paths whose request raises                          *)

(* an exception in a path request leaves the loop over the paths *)
Confidence_StopAtError(c, net) ==
    LET sig == cms_signatures[c]
        Signal(path) == IF path \in net.paths200 THEN 25 ELSE 0
    IN  20 * Cardinality(sig.headers \cap net.headers)
        + (IF sig.meta /\ net.meta[c] # <<>> THEN 30 ELSE 0)
        + 15 * Cardinality(sig.patterns \cap net.patterns)
        + (IF sig.paths[1] \in net.path_errors THEN 0
           ELSE Signal(sig.paths[1])
                + (IF sig.paths[2] \in net.path_errors THEN 0
                   ELSE Signal(sig.paths[2])))

(* the path loop: cms_data['paths'][:2], "except: continue" around each    *)
(* request                                                                 *)
Confidence(c, net) ==
    LET sig == cms_signatures[c]
        Signal(path) == IF path \in net.path_errors THEN 0
                        ELSE IF path \in net.paths200 THEN 25
                        ELSE 0
    IN  20 * Cardinality(sig.headers \cap net.headers)
        + (IF sig.meta /\ net.meta[c] # <<>> THEN 30 ELSE 0)
        + 15 * Cardinality(sig.patterns \cap net.patterns)
        + Signal(sig.paths[1]) + Signal(sig.paths[2])

CandidateVersion(c, net) == IF cms_signatures[c].meta THEN net.meta[c] ELSE <<>>

RECURSIVE BestMatch(_, _)

(* a candidate with an equal confidence replaces the current best *)
BestMatch_LastWins(net, i) ==
    IF i = 0 THEN [cms |-> <<>>, confidence |-> 0, version |-> <<>>]
    ELSE LET best == BestMatch(net, i - 1)
             c    == cms_order[i]
             confidence == Confidence(c, net)
         IN  IF confidence >= best.confidence
             THEN [cms |-> <<c>>, confidence |-> confidence,
                   version |-> CandidateVersion(c, net)]
             ELSE best

(* best_match after the first i candidates *)
BestMatch(net, i) ==
    IF i = 0 THEN [cms |-> <<>>, confidence |-> 0, version |-> <<>>]
    ELSE LET best == BestMatch(net, i - 1)
             c    == cms_order[i]
             confidence == Confidence(c, net)
         IN  IF confidence > best.confidence
             THEN [cms |-> <<c>>, confidence |-> confidence,
                   version |-> CandidateVersion(c, net)]
             ELSE best

NotDetected ==
    [detected |-> FALSE, type |-> <<>>, name |-> <<>>, version |-> <<>>,
     confidence |-> 0]

(* the threshold test admitting a confidence of exactly 50 *)
_detect_cms_AtLeast50(net) ==
    IF ~net.fetch_ok THEN NotDetected
    ELSE LET best_match == BestMatch(net, Len(cms_order))
         IN  IF best_match.confidence >= 50
             THEN [detected |-> TRUE, type |-> best_match.cms,
                   name |-> <<cms_signatures[best_match.cms[1]].name>>,
                   version |-> best_match.version,
                   confidence |-> best_match.confidence]
             ELSE NotDetected

_detect_cms(net) ==
    IF ~net.fetch_ok THEN NotDetected
    ELSE LET best_match == BestMatch(net, Len(cms_order))
         IN  IF best_match.confidence > 50
             THEN [detected |-> TRUE, type |-> best_match.cms,
                   name |-> <<cms_signatures[best_match.cms[1]].name>>,
                   version |-> best_match.version,
                   confidence |-> best_match.confidence]
             ELSE NotDetected

(* A version string is the sequence of its dot-separated components: the   *)
(* number a component of digits stands for, or EmptyPart for the empty     *)
(* component of "5.0." or "4..8", which int() rejects.                     *)
EmptyPart == -1

known_vulnerabilities ==
    [c \in {"wordpress", "drupal", "joomla"} |->
        CASE c = "wordpress" ->
                << [version |-> <<5, 0>>, cves |-> <<"CVE-2019-8942", "CVE-2019-8943">>],
                   [version |-> <<4, 9>>, cves |-> <<"CVE-2018-6389", "CVE-2017-17092">>],
                   [version |-> <<4, 8>>, cves |-> <<"CVE-2017-14723", "CVE-2017-16510">>] >>
          [] c = "drupal" ->
                << [version |-> <<8, 5>>, cves |-> <<"CVE-2018-7600", "CVE-2018-7602">>],
                   [version |-> <<7, 58>>, cves |-> <<"CVE-2018-7600", "CVE-2017-6920">>],
                   [version |-> <<7, 57>>, cves |-> <<"CVE-2017-6925", "CVE-2017-6924">>] >>
          [] c = "joomla" ->
                << [version |-> <<3, 8>>, cves |-> <<"CVE-2018-6376", "CVE-2018-6377">>],
                   [version |-> <<3, 7>>, cves |-> <<"CVE-2017-8917", "CVE-2017-7985">>] >>]

PadZeros(parts, n) == parts \o [i \in 1..(n - Len(parts)) |-> 0]

(* Python's list comparison a <= b for lists of equal length *)
RECURSIVE ListLE(_, _)
ListLE(a, b) ==
    IF a = <<>> THEN TRUE
    ELSE IF Head(a) < Head(b) THEN TRUE
    ELSE IF Head(a) > Head(b) THEN FALSE
    ELSE ListLE(Tail(a), Tail(b))

(* the comparison made strict *)
_is_vulnerable_version_Strict(current_version, vulnerable_version) ==
    IF \E i \in DOMAIN current_version : current_version[i] = EmptyPart THEN FALSE
    ELSE IF \E i \in DOMAIN vulnerable_version : vulnerable_version[i] = EmptyPart
    THEN FALSE
    ELSE LET max_len == Max(Len(current_version), Len(vulnerable_version))
         IN  /\ ListLE(PadZeros(current_version, max_len),
                       PadZeros(vulnerable_version, max_len))
             /\ PadZeros(current_version, max_len)
                    # PadZeros(vulnerable_version, max_len)

_is_vulnerable_version(current_version, vulnerable_version) ==
    IF \E i \in DOMAIN current_version : current_version[i] = EmptyPart THEN FALSE
    ELSE IF \E i \in DOMAIN vulnerable_version : vulnerable_version[i] = EmptyPart
    THEN FALSE
    ELSE LET max_len == Max(Len(current_version), Len(vulnerable_version))
         IN  ListLE(PadZeros(current_version, max_len),
                    PadZeros(vulnerable_version, max_len))

(* an id missing from severity_map is given the lowest severity *)
_get_cve_severity_DefaultLow(cve) ==
    CASE cve = "CVE-2019-8942" -> "high"
      [] cve = "CVE-2018-7600" -> "critical"
      [] cve = "CVE-2018-6389" -> "medium"
      [] cve = "CVE-2017-8917" -> "high"
      [] OTHER -> "low"

_get_cve_severity(cve) ==
    CASE cve = "CVE-2019-8942" -> "high"
      [] cve = "CVE-2018-7600" -> "critical"
      [] cve = "CVE-2018-6389" -> "medium"
      [] cve = "CVE-2017-8917" -> "high"
      [] OTHER -> "medium"

RECURSIVE CveRecords(_, _)
CveRecords(cves, vuln_version) ==
    IF cves = <<>> THEN <<>>
    ELSE <<[id |-> Head(cves), severity |-> _get_cve_severity(Head(cves)),
            affected_version |-> vuln_version]>>
         \o CveRecords(Tail(cves), vuln_version)

(* the found list after the first i buckets of cms_vulns *)
RECURSIVE FoundVulns(_, _, _)
FoundVulns(cms_vulns, version, i) ==
    IF i = 0 THEN <<>>
    ELSE FoundVulns(cms_vulns, version, i - 1) \o
         (IF _is_vulnerable_version(version, cms_vulns[i].version)
          THEN CveRecords(cms_vulns[i].cves, cms_vulns[i].version)
          ELSE <<>>)

_check_vulnerabilities(cms_info) ==
    LET none == [found |-> <<>>, count |-> 0, risk_level |-> "low"]
    IN  IF ~cms_info.detected \/ cms_info.version = <<>> THEN none
        ELSE IF cms_info.type[1] \notin DOMAIN known_vulnerabilities THEN none
        ELSE LET cms_vulns  == known_vulnerabilities[cms_info.type[1]]
                 found      == FoundVulns(cms_vulns, cms_info.version[1], Len(cms_vulns))
                 severities == {found[i].severity : i \in DOMAIN found}
             IN  [found |-> found, count |-> Len(found),
                  risk_level |-> IF "critical" \in severities THEN "critical"
                                 ELSE IF "high" \in severities THEN "high"
                                 ELSE IF "medium" \in severities THEN "medium"
                                 ELSE "low"]

(* files_to_check of _check_exposed_files *)
files_to_check(cms_type) ==
    IF cms_type = <<"wordpress">>
    THEN {"/wp-config.php", "/readme.html", "/license.txt", "/.htaccess",
          "/wp-admin/install.php", "/xmlrpc.php"}
    ELSE IF cms_type = <<"drupal">>
    THEN {"/CHANGELOG.txt", "/COPYRIGHT.txt", "/INSTALL.txt", "/LICENSE.txt",
          "/MAINTAINERS.txt", "/install.php"}
    ELSE IF cms_type = <<"joomla">>
    THEN {"/configuration.php", "/htaccess.txt", "/LICENSE.txt", "/README.txt"}
    ELSE {}

_assess_file_risk(file_path) ==
    IF file_path \in {"/wp-config.php", "/configuration.php", "/.htaccess"} THEN "high"
    ELSE IF file_path \in {"/readme.html", "/license.txt", "/xmlrpc.php"} THEN "medium"
    ELSE "low"

(* the paths of exposed['found']: the checked files the network serves     *)
_check_exposed_files(cms_type, net) ==
    IF net.fetch_ok THEN files_to_check(cms_type) \cap net.exposed ELSE {}

RECURSIVE VulnPenalty(_)
VulnPenalty(found) ==
    IF found = <<>> THEN 0
    ELSE (CASE Head(found).severity = "critical" -> 30
            [] Head(found).severity = "high"     -> 20
            [] Head(found).severity = "medium"   -> 10
            [] OTHER                             -> 5)
         + VulnPenalty(Tail(found))

(* plugins['outdated'] and plugins['vulnerable'] are never filled by       *)
(* _analyze_plugins, so their penalties are zero                           *)
_calculate_cms_score(cms_info, vulns, exposed) ==
    LET score == 100 - VulnPenalty(vulns.found)
                 - SumOver(exposed, [f \in exposed |->
                        CASE _assess_file_risk(f) = "high"   -> 15
                          [] _assess_file_risk(f) = "medium" -> 10
                          [] OTHER                           -> 5])
                 + (IF cms_info.detected /\ cms_info.version # <<>> THEN 10 ELSE 0)
    IN  Max(0, Min(score, 100))

(* version strings the generator pattern ([0-9.]+) can capture             *)
Versions == {<<4, 8>>, <<4, 8, 0>>, <<4, 9>>, <<4, 9, 1>>, <<5, 0>>, <<5, 0, 1>>,
             <<6, 2>>, <<5, EmptyPart>>, <<7, 57>>, <<8, 5>>, <<3, 7>>}

NoMeta == [c \in {"wordpress", "drupal", "joomla"} |-> <<>>]

Metas == {NoMeta} \cup
         {[NoMeta EXCEPT ![c] = <<v>>] :
             c \in {"wordpress", "drupal", "joomla"}, v \in Versions}

(* a path request either raises or is answered, never both *)
CMSNets ==
    [fetch_ok : {FALSE}, headers : {{}}, meta : {NoMeta}, patterns : {{}},
     paths200 : {{}}, path_errors : {{}}, exposed : {{}}]
    \cup
    {n \in
        [fetch_ok : {TRUE},
         headers  : {{}, {"x-powered-by"}, {"x-drupal-cache", "x-generator"}},
         meta     : Metas,
         patterns : {{}, {"/wp-content/themes/", "/wp-content/plugins/"},
                     {"/modules/"}},
         paths200 : {{}, {"/wp-admin/"}, {"/admin/", "/user/login"},
                     {"/administrator/"}, {"/wp-content/", "/wp-includes/"}},
         path_errors : {{}, {"/wp-admin/"}},
         exposed  : {{}, {"/wp-config.php", "/readme.html"}, {"/CHANGELOG.txt"},
                     {"/configuration.php", "/LICENSE.txt"}}] :
        n.paths200 \cap n.path_errors = {}}

CMSNetDown == [fetch_ok |-> FALSE, headers |-> {}, meta |-> NoMeta,
               patterns |-> {}, paths200 |-> {}, path_errors |-> {},
               exposed |-> {}]

(* a URL without a hostname makes every request of the probe fail; issues  *)
(* is the length of the issues list: one entry for each vulnerability      *)
(* found and one for each exposed file                                     *)
cms_scan(url, net) ==
    LET n        == IF url.host THEN net ELSE [net EXCEPT !.fetch_ok = FALSE]
        cms_info == _detect_cms(n)
        vulns    == _check_vulnerabilities(cms_info)
        exposed  == _check_exposed_files(cms_info.type, n)
        score    == _calculate_cms_score(cms_info, vulns, exposed)
    IN  WithReport(SuccessResult(score, determine_status(score)),
                   [cms             |-> cms_info,
                    vulnerabilities |-> vulns,
                    exposed_files   |-> exposed,
                    issues          |-> Len(vulns.found) + Cardinality(exposed)])

----------------------------------------------------------------------------
(* The five scanner objects start_scan holds, by the name start_scan gives *)
(* their slot.                                                             *)

scan(scan_type, url, net) ==
    CASE scan_type = "ssl"     -> ssl_scan(url, net)
      [] scan_type = "ports"   -> port_scan(url, net)
      [] scan_type = "headers" -> headers_scan(url, net)
      [] scan_type = "cms"     -> cms_scan(url, net)
      [] scan_type = "ddos"    -> ddos_scan(url, net)

Nets(scan_type) ==
    CASE scan_type = "ssl"     -> SSLNets
      [] scan_type = "ports"   -> PortNets
      [] scan_type = "headers" -> HeaderNets
      [] scan_type = "cms"     -> CMSNets
      [] scan_type = "ddos"    -> DDoSNets

(* every network operation of the probe against the target fails           *)
NetDown(scan_type) ==
    CASE scan_type = "ssl"     -> SSLNetDown
      [] scan_type = "ports"   -> PortNetDown
      [] scan_type = "headers" -> HeaderNetDown
      [] scan_type = "cms"     -> CMSNetDown
      [] scan_type = "ddos"    -> DDoSNetDown

(* a well configured site, as each probe sees it                           *)
NetHealthy(scan_type) ==
    CASE scan_type = "ssl" ->
            [redirect |-> TRUE,
             cert |-> CertError,
             supported |-> {"TLSv1.3", "TLSv1.2"},
             cipher |-> [error |-> FALSE, bits |-> 256, weak_ciphers |-> 0]]
      [] scan_type = "ports" ->
            [resolves |-> TRUE, nmap_ok |-> TRUE, open |-> {80, 22}]
      [] scan_type = "headers" ->
            [fetch |-> "ok",
             state |-> [h \in critical_headers \cup additional_headers |-> "good"],
             dangerous |-> 0, redirect |-> "permanent"]
      [] scan_type = "cms" ->
            [fetch_ok |-> TRUE, headers |-> {"x-powered-by"},
             meta |-> [NoMeta EXCEPT !["wordpress"] = <<<<6, 2>>>>],
             patterns |-> {"/wp-content/themes/", "/wp-content/plugins/"},
             paths200 |-> {"/wp-admin/"}, path_errors |-> {}, exposed |-> {}]
      [] scan_type = "ddos" ->
            [dns |-> "multi", cdn |-> "cloudflare", rate |-> "429"]

(* a negligent site                                                        *)
NetPoor(scan_type) ==
    CASE scan_type = "ssl" ->
            [redirect |-> FALSE,
             cert |-> CertError,
             supported |-> {"TLSv1.1", "TLSv1"},
             cipher |-> [error |-> FALSE, bits |-> 112, weak_ciphers |-> 2]]
      [] scan_type = "ports" ->
            [resolves |-> TRUE, nmap_ok |-> FALSE, open |-> {22, 23, 80}]
      [] scan_type = "headers" ->
            [fetch |-> "ok",
             state |-> [AllMissing EXCEPT !["x-frame-options"] = "excellent"],
             dangerous |-> 2, redirect |-> "none"]
      [] scan_type = "cms" ->
            [fetch_ok |-> TRUE, headers |-> {"x-powered-by"},
             meta |-> [NoMeta EXCEPT !["wordpress"] = <<<<4, 8>>>>],
             patterns |-> {"/wp-content/themes/", "/wp-content/plugins/"},
             paths200 |-> {"/wp-admin/"}, path_errors |-> {},
             exposed |-> {"/wp-config.php", "/readme.html"}]
      [] scan_type = "ddos" ->
            [dns |-> "single", cdn |-> "none", rate |-> "timeout"]

(* a site with everything open: plain Drupal 7.57 behind no CDN            *)
NetExposed(scan_type) ==
    CASE scan_type = "ssl" ->
            [redirect |-> FALSE,
             cert |-> CertError,
             supported |-> {"TLSv1.1", "TLSv1"},
             cipher |-> [error |-> FALSE, bits |-> 56, weak_ciphers |-> 2]]
      [] scan_type = "ports" ->
            [resolves |-> TRUE, nmap_ok |-> TRUE, open |-> {21, 23, 3306, 3389, 6379}]
      [] scan_type = "headers" ->
            [fetch |-> "ok", state |-> AllMissing, dangerous |-> 2,
             redirect |-> "none"]
      [] scan_type = "cms" ->
            [fetch_ok |-> TRUE, headers |-> {"x-drupal-cache", "x-generator"},
             meta |-> [NoMeta EXCEPT !["drupal"] = <<<<7, 57>>>>],
             patterns |-> {"/modules/"},
             paths200 |-> {"/admin/", "/user/login"}, path_errors |-> {},
             exposed |-> {"/CHANGELOG.txt"}]
      [] scan_type = "ddos" ->
            [dns |-> "single", cdn |-> "none", rate |-> "none"]

(* the observations a session's probes are run under                       *)
(* for the ports also a mail host with a database behind FTP and Telnet     *)
SessionNets(scan_type) ==
    {NetDown(scan_type), NetHealthy(scan_type), NetPoor(scan_type),
     NetExposed(scan_type)}
    \cup (IF scan_type = "ports"
          THEN {[resolves |-> TRUE, nmap_ok |-> TRUE, open |-> {21, 23, 993, 3306}]}
          ELSE {})

(* the threshold of "good" mistyped                                        *)
security_levels_Mistyped ==
    << [level |-> "excellent", min_score |-> 90],
       [level |-> "good",      min_score |-> 85],
       [level |-> "warning",   min_score |-> 60],
       [level |-> "critical",  min_score |-> 0] >>

(* security_levels, sorted by min_score in descending order as             *)
(* get_security_summary sorts it                                           *)
security_levels ==
    << [level |-> "excellent", min_score |-> 90],
       [level |-> "good",      min_score |-> 80],
       [level |-> "warning",   min_score |-> 60],
       [level |-> "critical",  min_score |-> 0] >>

RECURSIVE LevelFrom(_, _)
LevelFrom(total, i) ==
    IF i > Len(security_levels) THEN "critical"
    ELSE IF total >= security_levels[i].min_score THEN security_levels[i].level
    ELSE LevelFrom(total, i + 1)

get_security_summary(results, total) ==
    [security_level |-> LevelFrom(total, 1),
     total_score |-> total,
     certificate_eligible |-> total >= 80]

----------------------------------------------------------------------------
(* SecurityScorer.generate_recommendations.  The recommendation texts are  *)
(* rendered in English; texts built with an f-string are built by          *)
(* concatenation.  A key a result dict does not have reads as the default  *)
(* of its .get().                                                          *)

HasReport(result) == result.report # <<>>

(* len(result.get('issues', [])) *)
IssueCount(result) == IF HasReport(result) THEN result.report[1].issues ELSE 0

_get_ssl_recommendations(ssl_result) ==
    IF Truthy(ssl_result.error)
    THEN <<"Fix the problems of the SSL configuration">>
    ELSE IF ssl_result.status = <<"critical">>
    THEN IF HasReport(ssl_result) /\ ssl_result.report[1].protocol = "HTTP"
         THEN <<"Install an SSL certificate and enable HTTPS",
                "Set up automatic redirection from HTTP to HTTPS">>
         ELSE <<"Urgently update the SSL configuration">>
    ELSE IF ssl_result.status = <<"warning">>
    THEN (IF HasReport(ssl_result) /\ ssl_result.report[1].expires_soon
          THEN <<"Renew the SSL certificate before it expires">> ELSE <<>>)
         \o (IF HasReport(ssl_result) /\ ssl_result.report[1].weak_protocols # {}
             THEN <<"Disable the outdated TLS/SSL protocols">> ELSE <<>>)
    ELSE <<>>

_get_port_recommendations(port_result) ==
    IF Truthy(port_result.error) THEN <<>>
    ELSE LET dangerous == IF HasReport(port_result)
                          THEN port_result.report[1].dangerous_ports ELSE <<>>
             first == SubSeq(dangerous, 1, Min(3, Len(dangerous)))
             ForPort(port, service) ==
                 IF port = 21
                 THEN "Replace FTP with SFTP or FTPS for secure file transfer"
                 ELSE IF port = 23
                 THEN "Replace Telnet with SSH for secure remote access"
                 ELSE IF port = 3389
                 THEN "Restrict access to RDP through a VPN"
                 ELSE IF port \in {3306, 5432, 1433}
                 THEN "Close direct access to the database (" \o service
                          \o ") from the internet"
                 ELSE "Close the unused port " \o ToString(port)
                          \o " (" \o service \o ")"
         IN  [i \in DOMAIN first |-> ForPort(first[i].port, first[i].service)]
             \o (IF Len(dangerous) > 3
                 THEN <<"Check and close the remaining "
                            \o ToString(Len(dangerous) - 3) \o " insecure ports">>
                 ELSE <<>>)

(* the 'name' of a header in critical_headers *)
header_name(h) ==
    CASE h = "strict-transport-security" -> "Strict-Transport-Security (HSTS)"
      [] h = "content-security-policy"   -> "Content-Security-Policy (CSP)"
      [] h = "x-frame-options"           -> "X-Frame-Options"

_get_header_recommendations(header_result) ==
    IF Truthy(header_result.error) THEN <<>>
    ELSE LET missing == IF HasReport(header_result)
                        THEN header_result.report[1].missing ELSE {}
             dangerous == IF HasReport(header_result)
                          THEN header_result.report[1].dangerous ELSE 0
             priority_headers ==
                 <<"strict-transport-security", "content-security-policy",
                   "x-frame-options">>
             absent == SelectSeq(priority_headers, LAMBDA header : header \in missing)
         IN  [i \in DOMAIN absent |-> "Add the header " \o header_name(absent[i])]
             \o (IF dangerous > 0
                 THEN <<"Hide the informational server headers (Server, X-Powered-By)">>
                 ELSE <<>>)

(* plugins['outdated'] is never filled, so its recommendation never shows  *)
_get_cms_recommendations(cms_result) ==
    IF Truthy(cms_result.error) THEN <<>>
    ELSE IF ~HasReport(cms_result) THEN <<>>
    ELSE LET cms_info == cms_result.report[1].cms
             vulnerabilities == cms_result.report[1].vulnerabilities
             exposed_files == cms_result.report[1].exposed_files
         IN  IF ~cms_info.detected THEN <<>>
             ELSE (IF vulnerabilities.found # <<>>
                   THEN <<"Urgently update " \o cms_info.name[1]
                              \o " to the latest version">>
                        \o (IF vulnerabilities.risk_level = "critical"
                            THEN <<"Critical vulnerabilities found - apply the patches immediately">>
                            ELSE <<>>)
                   ELSE <<>>)
                  \o (IF exposed_files # {}
                      THEN <<"Restrict access to the system files of the CMS">>
                      ELSE <<>>)

_get_ddos_recommendations(ddos_result) ==
    IF Truthy(ddos_result.error) THEN <<>>
    ELSE LET has == HasReport(ddos_result)
         IN  (IF ~(has /\ ddos_result.report[1].cdn_detected)
              THEN <<"Set up a CDN (for example Cloudflare) to protect against DDoS attacks">>
              ELSE <<>>)
             \o (IF ~(has /\ ddos_result.report[1].rate_detected)
                 THEN <<"Set up request rate limiting">> ELSE <<>>)
             \o (IF has /\ ddos_result.report[1].single_ip
                 THEN <<"Set up load balancing between several servers">>
                 ELSE <<>>)

_get_general_recommendations(scan_results) ==
    LET K == DOMAIN scan_results
        total_issues == SumOver(K, [k \in K |-> IssueCount(scan_results[k])])
        critical_issues ==
            Cardinality({k \in K : scan_results[k].status = <<"critical">>})
    IN  (IF critical_issues > 2
         THEN <<"A comprehensive security audit is recommended">> ELSE <<>>)
        \o (IF total_issues > 10
            THEN <<"Create a plan for the step-by-step elimination of vulnerabilities",
                   "Set up security monitoring">>
            ELSE <<>>)
        \o <<"Regularly update the software",
             "Use strong passwords and two-factor authentication">>

(* the general recommendations collected first *)
CollectRecommendations_GeneralFirst(scan_results) ==
    LET For(k, recs) == IF k \in DOMAIN scan_results THEN recs ELSE <<>>
    IN  _get_general_recommendations(scan_results)
        \o For("ssl", _get_ssl_recommendations(scan_results["ssl"]))
        \o For("ports", _get_port_recommendations(scan_results["ports"]))
        \o For("headers", _get_header_recommendations(scan_results["headers"]))
        \o For("cms", _get_cms_recommendations(scan_results["cms"]))
        \o For("ddos", _get_ddos_recommendations(scan_results["ddos"]))

(* the list 'recommendations' before duplicates are removed *)
CollectRecommendations(scan_results) ==
    LET For(k, recs) == IF k \in DOMAIN scan_results THEN recs ELSE <<>>
    IN  For("ssl", _get_ssl_recommendations(scan_results["ssl"]))
        \o For("ports", _get_port_recommendations(scan_results["ports"]))
        \o For("headers", _get_header_recommendations(scan_results["headers"]))
        \o For("cms", _get_cms_recommendations(scan_results["cms"]))
        \o For("ddos", _get_ddos_recommendations(scan_results["ddos"]))
        \o _get_general_recommendations(scan_results)

(* list(dict.fromkeys(recommendations)): the first occurrence of each      *)
(* string, in order                                                        *)
RECURSIVE FromKeys(_)
FromKeys(recommendations) ==
    IF recommendations = <<>> THEN <<>>
    ELSE LET n == Len(recommendations)
             rest == FromKeys(SubSeq(recommendations, 1, n - 1))
         IN  IF recommendations[n] \in SeqRange(rest) THEN rest
             ELSE Append(rest, recommendations[n])

unique_recommendations(scan_results) ==
    FromKeys(CollectRecommendations(scan_results))

(* the slice [:15] left out *)
generate_recommendations_NoLimit(scan_results) ==
    unique_recommendations(scan_results)

generate_recommendations(scan_results) ==
    LET unique == unique_recommendations(scan_results)
    IN  SubSeq(unique, 1, Min(15, Len(unique)))

----------------------------------------------------------------------------
VARIABLES
    phase,          \* where the handler (or the function under test) stands
    request,        \* the ScanRequest: url and scan_types; <<>> before the call
    tasks,          \* start_scan's list of (scan_type, coroutine), by scan_type
    idx,            \* how many tasks the await loop has finished
    coro,           \* the state of each scanner's coroutine object
    outcome,        \* how each coroutine ended: <<"return", r>>, <<"raise", msg>>
    net,            \* the observation of the probe under examination
    scan_results,   \* the scan_type -> result dict
    total_score,    \* <<>> until calculate_total_score has returned, then <<n>>
    response,       \* <<>> until start_scan returns, then <<ScanResponse>>
    summary,        \* <<>> until get_security_summary has returned, then <<dict>>
    nm,             \* the scan result held by port_scanner.nm, the PortScanner
                    \* object of the one module-level scanner: <<>> before
                    \* the first scan, then <<[host, open]>>
    sessions        \* two sessions running the port probe at the same time:
                    \* where each is, what its target has open, its result

vars == <<phase, request, tasks, idx, coro, outcome, net, scan_results,
          total_score, response, summary, nm, sessions>>

EmptyMap == [k \in {} |-> 0]

NoCoro == [k \in Kinds |-> "none"]
NoOutcome == [k \in Kinds |-> <<>>]

----------------------------------------------------------------------------
(* calculate_total_score as a function of its argument.  The mappings are  *)
(* all those with at most MaxSlots keys whose slots are drawn from         *)
(* SlotValues, and the scenarios of the specification's section 8.         *)

MaxSlots == 2

Scores == {-20, 43, 55, 80, 90, 150}

SlotValues ==
    {SuccessResult(s, determine_status(s)) : s \in Scores}
        \cup {ErrorOnly(""), ErrorOnly("timeout"), ScannerError("scan failed"),
              NonNumericScore}

Scenario(sc) == [k \in Kinds |->
                    SuccessResult(sc[k], determine_status(sc[k]))]

Scenarios ==
    { Scenario([ssl |-> 85, ports |-> 70, headers |-> 90, cms |-> 80, ddos |-> 60]),
      [k \in Kinds |->
          CASE k = "ports"   -> SuccessResult(55, "critical")
            [] k = "headers" -> SuccessResult(90, "good")
            [] OTHER         -> ErrorOnly("timeout")],
      [k \in Kinds |->
          CASE k = "ssl"   -> SuccessResult(80, "good")
            [] k = "ports" -> SuccessResult(80, "good")
            [] OTHER       -> ScannerError("scan failed")] }

ScoreInit ==
    /\ phase = "input"
    /\ scan_results \in {EmptyMap} \cup Scenarios
    /\ total_score = <<>>
    /\ request = <<>>
    /\ tasks = <<>>
    /\ idx = 0
    /\ coro = NoCoro
    /\ outcome = NoOutcome
    /\ net = <<>>
    /\ response = <<>>
    /\ summary = <<>>
    /\ nm = <<>>
    /\ sessions = <<>>

AddSlot(k, r) ==
    /\ phase = "input"
    /\ k \notin DOMAIN scan_results
    /\ Cardinality(DOMAIN scan_results) < MaxSlots
    /\ scan_results' = [j \in DOMAIN scan_results \cup {k} |->
                           IF j = k THEN r ELSE scan_results[j]]
    /\ UNCHANGED <<nm, sessions, summary, phase, request, tasks, idx, coro, outcome, net, total_score,
                   response>>

Score ==
    /\ phase = "input"
    /\ total_score' = <<calculate_total_score(scan_results)>>
    /\ phase' = "scored"
    /\ UNCHANGED <<nm, sessions, summary, request, tasks, idx, coro, outcome, net, scan_results, response>>

(* get_security_summary(scan_results, total_score) on the score just       *)
(* computed                                                                *)
Summarise ==
    /\ phase = "scored"
    /\ summary' = <<get_security_summary(scan_results, total_score[1])>>
    /\ phase' = "summarised"
    /\ UNCHANGED <<request, tasks, idx, coro, outcome, net, scan_results,
                   total_score, response, nm, sessions>>

ScoreNext ==
    \/ \E k \in Kinds, r \in SlotValues : AddSlot(k, r)
    \/ Score
    \/ Summarise

SpecScore == ScoreInit /\ [][ScoreNext]_vars

----------------------------------------------------------------------------
(* One scanner's scan(url) as a function of the URL and of what the        *)
(* network answers.                                                        *)

ProbeInit ==
    /\ phase = "probing"
    /\ \E k \in Kinds, url \in Targets :
          /\ request = [url |-> url, scan_types |-> <<k>>]
          /\ tasks = <<k>>
          /\ net \in Nets(k)
    /\ idx = 0
    /\ coro = NoCoro
    /\ outcome = NoOutcome
    /\ scan_results = EmptyMap
    /\ total_score = <<>>
    /\ response = <<>>
    /\ summary = <<>>
    /\ nm = <<>>
    /\ sessions = <<>>

RunProbe ==
    /\ phase = "probing"
    /\ scan_results' = [k \in {tasks[1]} |-> scan(k, request.url, net)]
    /\ phase' = "probed"
    /\ UNCHANGED <<nm, sessions, summary, request, tasks, idx, coro, outcome, net, total_score, response>>

ProbeNext == RunProbe

SpecProbe == ProbeInit /\ [][ProbeNext]_vars

----------------------------------------------------------------------------
(* POST /api/scan: start_scan.                                             *)

(* the URL of a request: its scheme ("none" when it starts with neither    *)
(* http:// nor https://) and whether urlparse finds a hostname in it       *)
RequestURLs == [scheme : {"none", "http", "https"}, host : BOOLEAN]

(* scan_types is a list of arbitrary strings, in any order and with        *)
(* repetitions.  The lists examined: for every set of at most MaxRequested *)
(* names, the names in the order of NameOrder, and in the reverse order    *)
(* with the first name repeated at the end                                 *)
MaxRequested == 3

ScanTypeNames == Kinds \cup {"whois"}

ScanTypeLists ==
    LET NameOrder == <<"ssl", "ports", "headers", "cms", "ddos", "whois">>
        InOrder(S) == SelectSeq(NameOrder, LAMBDA name : name \in S)
        Reverse(q) == [i \in DOMAIN q |-> q[Len(q) + 1 - i]]
        ListsOf(S) ==
            LET down == Reverse(InOrder(S))
            IN  {InOrder(S)}
                \cup (IF down = <<>> THEN {} ELSE {Append(down, down[1])})
    IN  UNION {ListsOf(S) :
                 S \in {T \in SUBSET ScanTypeNames : Cardinality(T) <= MaxRequested}}

Requests == [url : RequestURLs, scan_types : ScanTypeLists]

(* request.url = f"https://{request.url}" unless it has a scheme           *)
NormaliseURL(url) ==
    IF url.scheme = "none" THEN [url EXCEPT !.scheme = "https"] ELSE url

(* the copy-paste slip: the cms branch tests the headers name              *)
BuildTasks_CopyPaste(scan_types) ==
    (IF "ssl" \in SeqRange(scan_types) THEN <<"ssl">> ELSE <<>>)
    \o (IF "ports" \in SeqRange(scan_types) THEN <<"ports">> ELSE <<>>)
    \o (IF "headers" \in SeqRange(scan_types) THEN <<"headers">> ELSE <<>>)
    \o (IF "headers" \in SeqRange(scan_types) THEN <<"cms">> ELSE <<>>)
    \o (IF "ddos" \in SeqRange(scan_types) THEN <<"ddos">> ELSE <<>>)

(* the five "if name in request.scan_types: tasks.append(...)"             *)
BuildTasks(scan_types) ==
    (IF "ssl" \in SeqRange(scan_types) THEN <<"ssl">> ELSE <<>>)
    \o (IF "ports" \in SeqRange(scan_types) THEN <<"ports">> ELSE <<>>)
    \o (IF "headers" \in SeqRange(scan_types) THEN <<"headers">> ELSE <<>>)
    \o (IF "cms" \in SeqRange(scan_types) THEN <<"cms">> ELSE <<>>)
    \o (IF "ddos" \in SeqRange(scan_types) THEN <<"ddos">> ELSE <<>>)

(* str(e) of the exceptions a coroutine can raise: asyncio.TimeoutError()  *)
(* has the empty message                                                   *)
Messages == {"", "boom"}

Init ==
    /\ phase = "idle"
    /\ request = <<>>
    /\ tasks = <<>>
    /\ idx = 0
    /\ coro = NoCoro
    /\ outcome = NoOutcome
    /\ net = <<>>
    /\ scan_results = EmptyMap
    /\ total_score = <<>>
    /\ response = <<>>
    /\ summary = <<>>
    /\ nm = <<>>
    /\ sessions = <<>>

(* lines 86-108: the URL is prefixed, scan_results and tasks are built;    *)
(* calling scanner.scan(url) creates a coroutine object and runs nothing   *)
StartScan(req) ==
    /\ phase = "idle"
    /\ request' = [url |-> NormaliseURL(req.url), scan_types |-> req.scan_types]
    /\ tasks' = BuildTasks(req.scan_types)
    /\ coro' = [k \in Kinds |->
                   IF k \in SeqRange(BuildTasks(req.scan_types))
                   THEN "created" ELSE "none"]
    /\ scan_results' = EmptyMap
    /\ idx' = 0
    /\ phase' = "awaiting"
    /\ UNCHANGED <<nm, sessions, summary, outcome, net, total_score, response>>

(* the loop goes back to a task whose coroutine raised and runs it again   *)
AwaitTask_RetryFailed(k) ==
    /\ phase = "awaiting"
    /\ \/ /\ idx < Len(tasks)
          /\ k = tasks[idx + 1]
          /\ coro[k] = "created"
          /\ idx' = idx
       \/ /\ idx > 0
          /\ k = tasks[idx]
          /\ coro[k] = "raised"
          /\ idx' = idx - 1
    /\ coro' = [coro EXCEPT ![k] = "running"]
    /\ UNCHANGED <<nm, sessions, summary, phase, request, tasks, outcome, net, scan_results,
                   total_score, response>>

(* "result = await task": the loop reaches the next task and its coroutine *)
(* starts to run                                                           *)
AwaitTask(k) ==
    /\ phase = "awaiting"
    /\ idx < Len(tasks)
    /\ k = tasks[idx + 1]
    /\ coro[k] = "created"
    /\ coro' = [coro EXCEPT ![k] = "running"]
    /\ UNCHANGED <<nm, sessions, summary, phase, request, tasks, idx, outcome, net, scan_results,
                   total_score, response>>

(* the assignment replacing the whole dict by the one slot *)
SetSlot_Replace(m, k, r) == [j \in {k} |-> r]

SetSlot(m, k, r) == [j \in DOMAIN m \cup {k} |-> IF j = k THEN r ELSE m[j]]

(* the awaited coroutine returns r: scan_results[scan_type] = result       *)
ProbeReturns(k, r) ==
    /\ phase = "awaiting"
    /\ coro[k] = "running"
    /\ coro' = [coro EXCEPT ![k] = "returned"]
    /\ outcome' = [outcome EXCEPT ![k] = <<"return", r>>]
    /\ scan_results' = SetSlot(scan_results, k, r)
    /\ idx' = idx + 1
    /\ UNCHANGED <<nm, sessions, summary, phase, request, tasks, net, total_score, response>>

(* the exception ends the loop instead of the iteration                    *)
ProbeRaises_Abort(k, msg) ==
    /\ phase = "awaiting"
    /\ coro[k] = "running"
    /\ coro' = [coro EXCEPT ![k] = "raised"]
    /\ outcome' = [outcome EXCEPT ![k] = <<"raise", msg>>]
    /\ scan_results' = SetSlot(scan_results, k, ErrorOnly(msg))
    /\ idx' = Len(tasks)
    /\ UNCHANGED <<nm, sessions, summary, phase, request, tasks, net, total_score, response>>

(* the awaited coroutine raises an Exception:                              *)
(* scan_results[scan_type] = {"error": str(e)}                             *)
ProbeRaises(k, msg) ==
    /\ phase = "awaiting"
    /\ coro[k] = "running"
    /\ coro' = [coro EXCEPT ![k] = "raised"]
    /\ outcome' = [outcome EXCEPT ![k] = <<"raise", msg>>]
    /\ scan_results' = SetSlot(scan_results, k, ErrorOnly(msg))
    /\ idx' = idx + 1
    /\ UNCHANGED <<nm, sessions, summary, phase, request, tasks, net, total_score, response>>

(* the awaited coroutine never finishes: "await task" has no deadline, so  *)
(* the handler stays at line 113                                           *)
ProbeHangs(k) ==
    /\ phase = "awaiting"
    /\ coro[k] = "running"
    /\ coro' = [coro EXCEPT ![k] = "hung"]
    /\ UNCHANGED <<nm, sessions, summary, phase, request, tasks, idx, outcome, net, scan_results,
                   total_score, response>>

(* lines 119-149: the loop is over; the score and the recommendations are  *)
(* computed and the ScanResponse returned                                  *)
Finish ==
    /\ phase = "awaiting"
    /\ idx = Len(tasks)
    /\ total_score' = <<calculate_total_score(scan_results)>>
    /\ response' = <<[url     |-> request.url,
                      score   |-> total_score'[1],
                      status  |-> "completed",
                      results |-> scan_results,
                      recommendations |-> generate_recommendations(scan_results)]>>
    /\ phase' = "completed"
    /\ UNCHANGED <<nm, sessions, summary, request, tasks, idx, coro, outcome, net, scan_results>>

Next ==
    \/ \E req \in Requests : StartScan(req)
    \/ \E k \in Kinds : AwaitTask(k)
    \/ \E k \in Kinds : \E n \in SessionNets(k) :
          ProbeReturns(k, scan(k, request.url, n))
    \/ \E k \in Kinds, msg \in Messages : ProbeRaises(k, msg)
    \/ \E k \in Kinds : ProbeHangs(k)
    \/ Finish

Spec == Init /\ [][Next]_vars

(* a coroutine that runs ends in one of three ways                         *)
ProbeEnds ==
    \/ \E k \in Kinds : \E n \in SessionNets(k) :
          ProbeReturns(k, scan(k, request.url, n))
    \/ \E k \in Kinds, msg \in Messages : ProbeRaises(k, msg)
    \/ \E k \in Kinds : ProbeHangs(k)

(* the step in which the handler leaves the loop and returns: the Finish   *)
(* steps, whatever score and recommendations the response carries; the     *)
(* first disjunct is one such step written out                             *)
HandlerReturns ==
    /\ phase = "awaiting"
    /\ idx = Len(tasks)
    /\ phase' = "completed"
    /\ UNCHANGED <<nm, sessions, summary, request, tasks, idx, coro, outcome, net, scan_results>>
    /\ \/ /\ total_score' = <<0>>
          /\ response' = <<[url     |-> request.url,
                            score   |-> 0,
                            status  |-> "completed",
                            results |-> scan_results,
                            recommendations |-> <<>>]>>
       \/ /\ response' # <<>>
          /\ response'[1].url = request.url
          /\ response'[1].status = "completed"
          /\ response'[1].results = scan_results
          /\ total_score' = <<response'[1].score>>

(* the event loop runs the handler whenever it can continue: the await of  *)
(* the next task and the code after the loop are eventually executed, and  *)
(* a running coroutine eventually ends in one of its three ways            *)
FairSpec ==
    /\ Spec
    /\ WF_vars(\E k \in Kinds : AwaitTask(k))
    /\ WF_vars(ProbeEnds)
    /\ WF_vars(HandlerReturns)

----------------------------------------------------------------------------
(* Two sessions whose port probes run at the same time.  Both call the     *)
(* scan method of the one port_scanner object, so both use its self.nm:    *)
(* nm.scan(...) runs in an executor thread and leaves its result in nm,    *)
(* and the coroutine reads nm.all_hosts() and nm[ip_address] when it is    *)
(* resumed.                                                                *)

Sessions == {"A", "B"}

(* the two targets resolve to different addresses *)
ip_address(s) == IF s = "A" THEN "192.0.2.1" ELSE "192.0.2.2"

SharedInit ==
    /\ phase = "shared"
    /\ request = <<>>
    /\ tasks = <<>>
    /\ idx = 0
    /\ coro = NoCoro
    /\ outcome = NoOutcome
    /\ net = <<>>
    /\ scan_results = EmptyMap
    /\ total_score = <<>>
    /\ response = <<>>
    /\ summary = <<>>
    /\ nm = <<>>
    /\ sessions \in [Sessions -> [pc : {"start"}, nmap_ok : BOOLEAN,
                                  open : SUBSET {22, 23, 3306}, result : {<<>>}]]

(* lines 135-141: the session hands nm.scan to the executor and awaits it  *)
SubmitNmap(s) ==
    /\ sessions[s].pc = "start"
    /\ sessions' = [sessions EXCEPT ![s].pc = "scanning"]
    /\ UNCHANGED <<nm, phase, request, tasks, idx, coro, outcome, net,
                   scan_results, total_score, response, summary>>

(* the executor thread finishes nm.scan: the result of this scan replaces  *)
(* whatever nm held; the awaiting coroutine is not resumed yet             *)
NmapDone(s) ==
    /\ sessions[s].pc = "scanning"
    /\ sessions[s].nmap_ok
    /\ nm' = <<[host |-> ip_address(s), open |-> sessions[s].open]>>
    /\ sessions' = [sessions EXCEPT ![s].pc = "scanned"]
    /\ UNCHANGED <<phase, request, tasks, idx, coro, outcome, net,
                   scan_results, total_score, response, summary>>

(* lines 144-158 and the rest of scan: the coroutine is resumed and reads  *)
(* the open ports of its address out of nm                                 *)
ReadNmap(s) ==
    /\ sessions[s].pc = "scanned"
    /\ LET open_ports == IF nm # <<>> /\ nm[1].host = ip_address(s)
                         THEN OpenAmong(common_ports, nm[1].open)
                         ELSE <<>>
       IN  sessions' = [sessions EXCEPT ![s].pc = "done",
                                        ![s].result = <<PortResult(open_ports)>>]
    /\ UNCHANGED <<nm, phase, request, tasks, idx, coro, outcome, net,
                   scan_results, total_score, response, summary>>

(* lines 160-162: nm.scan raised; _simple_port_scan connects to the        *)
(* important ports itself and does not touch nm                            *)
NmapRaises(s) ==
    /\ sessions[s].pc = "scanning"
    /\ ~sessions[s].nmap_ok
    /\ sessions' = [sessions EXCEPT
                       ![s].pc = "done",
                       ![s].result =
                           <<PortResult(OpenAmong(important_ports, sessions[s].open))>>]
    /\ UNCHANGED <<nm, phase, request, tasks, idx, coro, outcome, net,
                   scan_results, total_score, response, summary>>

SharedNext ==
    \/ \E s \in Sessions : SubmitNmap(s)
    \/ \E s \in Sessions : NmapDone(s)
    \/ \E s \in Sessions : ReadNmap(s)
    \/ \E s \in Sessions : NmapRaises(s)

SpecShared == SharedInit /\ [][SharedNext]_vars

----------------------------------------------------------------------------
(* The claims' vocabulary *)

IsFailure(r) == r.error # <<>>
IsSuccess(r) == r.error = <<>>

SuccessKinds(m) == {k \in DOMAIN m : IsSuccess(m[k])}

WithoutFailures(m) == [k \in SuccessKinds(m) |-> m[k]]

(* floor(sum(score_i * w_i) / sum(w_i)) over the Success slots, 0 if none  *)
ExactAggregate(m) ==
    LET S   == SuccessKinds(m)
        num == SumOver(S, [k \in S |-> m[k].score[1] * WeightPct[k]])
        den == SumOver(S, [k \in S |-> WeightPct[k]])
    IN  IF den > 0 THEN num \div den ELSE 0

ScoresInRange(m) ==
    \A k \in SuccessKinds(m) : m[k].score_is_number /\ m[k].score[1] \in 0..100

(* C1: for every mapping, whatever its slots and scores, the aggregate     *)
(* returned by calculate_total_score is an integer in [0,100]              *)
C1_AggregateInRange ==
    phase = "scored" => total_score[1] \in 0..100

C1_Witness ==
    /\ phase = "scored"
    /\ \E k \in DOMAIN scan_results :
          IsSuccess(scan_results[k]) /\ scan_results[k].score[1] > 100
    /\ total_score = <<100>>

(* C2: the aggregate equals floor(sum(score_i * w_i) / sum(w_i)) over      *)
(* exactly the kinds with a Success slot, and 0 when no kind succeeded     *)
C2_AggregateIsFloorOfWeightedMean ==
    (phase = "scored" /\ ScoresInRange(scan_results))
        => total_score[1] = ExactAggregate(scan_results)

(* the Assessment a completed session returned                             *)
Completed == response # <<>>
Assessment == response[1]

Requested == SeqRange(request.scan_types) \cap Kinds

Raised(k) == outcome[k] # <<>> /\ outcome[k][1] = "raise"
Returned(k) == outcome[k] # <<>> /\ outcome[k][1] = "return"

(* the tier of an Assessment: the level get_security_summary gives it      *)
AssessmentTier(a) == get_security_summary(a.results, a.score).security_level

(* C3: Failure slots, whatever their reason string, contribute to neither  *)
(* numerator nor denominator: the aggregate of the mapping the             *)
(* orchestrator produced equals the aggregate of the same mapping with     *)
(* all Failure slots removed                                               *)
C3_FailuresIgnored ==
    Completed
        => Assessment.score = calculate_total_score(WithoutFailures(Assessment.results))

(* C4: a session in which every requested probe ends in Failure yields     *)
(* score 0 and the tier Error, not Critical and not the status of a        *)
(* session in which a probe succeeded                                      *)
C4_AllFailedIsErrorTier ==
    (/\ Completed
     /\ DOMAIN Assessment.results # {}
     /\ \A k \in DOMAIN Assessment.results : IsFailure(Assessment.results[k]))
        => /\ Assessment.score = 0
           /\ \/ AssessmentTier(Assessment) = "error"
              \/ Assessment.status = "error"

(* C5: when a session completes, the keys of the returned results mapping  *)
(* are exactly the requested ProbeKinds                                    *)
C5_KeysAreRequestedKinds ==
    Completed => DOMAIN Assessment.results = Requested

C5_Witness ==
    /\ Completed
    /\ "whois" \in SeqRange(request.scan_types)
    /\ Cardinality(DOMAIN Assessment.results) = 2
    /\ \E a, b \in DOMAIN Assessment.results :
          IsFailure(Assessment.results[a]) /\ IsSuccess(Assessment.results[b])

(* C6: if probe A raises, A's slot is the Failure carrying the reason, no  *)
(* sibling is aborted, every sibling B's slot holds what B itself          *)
(* produced, and all slots are present in the final mapping                *)
C6_OrchestratorIsolation ==
    \A a \in Kinds :
        Raised(a) =>
            /\ a \in DOMAIN scan_results
            /\ scan_results[a] = ErrorOnly(outcome[a][2])
            /\ \A b \in SeqRange(tasks) \ {a} :
                  /\ Returned(b) => /\ b \in DOMAIN scan_results
                                    /\ scan_results[b] = outcome[b][2]
                  /\ Completed => /\ coro[b] \in {"returned", "raised"}
                                  /\ b \in DOMAIN Assessment.results
                                  /\ Assessment.results[b] = scan_results[b]
            /\ Completed => /\ a \in DOMAIN Assessment.results
                            /\ Assessment.results[a] = ErrorOnly(outcome[a][2])

C6_Witness ==
    /\ Completed
    /\ \E i, j \in DOMAIN tasks :
          /\ i < j
          /\ Raised(tasks[i])
          /\ Returned(tasks[j])
          /\ IsSuccess(Assessment.results[tasks[j]])
          /\ IsFailure(Assessment.results[tasks[i]])

(* C7: the requested probes run concurrently: while probe A is running, a  *)
(* requested probe B that has not started can start                        *)
C7_ProbesRunConcurrently ==
    \A a, b \in Kinds :
        (coro[a] = "running" /\ coro[b] = "created") => ENABLED AwaitTask(b)

(* C8: a probe that never returns is eventually resolved to the Failure    *)
(* "timeout" and the session eventually returns an Assessment              *)
C8_HungProbeTimesOut ==
    \A k \in Kinds :
        (coro[k] = "hung")
            ~> (/\ Completed
                /\ k \in DOMAIN scan_results
                /\ scan_results[k] = ErrorOnly("timeout"))

(* C9: an empty requested-probe set, or a target with no host, fails the   *)
(* whole call before any probe starts: no probe runs and no Assessment is  *)
(* returned                                                                *)
Malformed(req) == req.scan_types = <<>> \/ ~req.url.host

C9_MalformedInputFailsEarly ==
    (request # <<>> /\ Malformed(request))
        => /\ \A k \in Kinds : coro[k] \in {"none", "created"}
           /\ ~Completed

(* C10: for each of the five probes, when its network operations against   *)
(* the target all fail, the probe's slot is a Failure, never a Success     *)
(* with a score and a status                                               *)
C10_NetworkFailureIsFailure ==
    (/\ phase = "probed"
     /\ request.url.host
     /\ net = NetDown(tasks[1]))
        => IsFailure(scan_results[tasks[1]])

(* the slot of the probe under examination                                 *)
Probed == phase = "probed"
ProbeKind == tasks[1]
ProbeSlot == scan_results[tasks[1]]

(* C11: every Success result of any of the five probes carries a score in  *)
(* [0,100], whatever the findings                                          *)
C11_ProbeScoreInRange ==
    (Probed /\ IsSuccess(ProbeSlot)) => ProbeSlot.score[1] \in 0..100

C11_Witness ==
    /\ Probed
    /\ ProbeKind = "ports"
    /\ IsSuccess(ProbeSlot)
    /\ net.open = {21, 23, 993, 3306, 3389, 6379}
    /\ net.nmap_ok
    /\ ProbeSlot.score = <<0>>

(* C12: for every Success result of every probe the status follows from    *)
(* the score alone: good iff score >= 80, warning iff 60 <= score < 80,    *)
(* critical iff score < 60, on the http:// path of the SSL probe too       *)
C12_StatusFromScore ==
    (Probed /\ IsSuccess(ProbeSlot))
        => ProbeSlot.status = <<determine_status(ProbeSlot.score[1])>>

Summarised == phase = "summarised"

CmsProbed == Probed /\ ProbeKind = "cms" /\ IsSuccess(ProbeSlot)
CmsInfo == ProbeSlot.report[1].cms

(* the signals of candidate c the target shows: 20 for each matched        *)
(* header, 30 for the generator markup, 15 for each content pattern, 25    *)
(* for each of the first two characteristic paths answering 200            *)
SignalSum(c) ==
    LET sig == cms_signatures[c]
        Hits(S) == Cardinality({x \in S : TRUE})
    IN  20 * Hits({h \in sig.headers : h \in net.headers})
        + 30 * Hits({m \in {c} : sig.meta /\ net.meta[c] # <<>>})
        + 15 * Hits({q \in sig.patterns : q \in net.patterns})
        + 25 * Hits({i \in 1..2 : sig.paths[i] \in net.paths200})

MaxSignalSum ==
    CHOOSE m \in {SignalSum(c) : c \in DOMAIN cms_signatures} :
        \A c \in DOMAIN cms_signatures : SignalSum(c) <= m

(* C14: the fingerprint engine reports zero or one technology: it is       *)
(* detected exactly when the largest sum of matched signals (header 20,    *)
(* markup 30, pattern 15, path 25) is strictly above 50, the technology    *)
(* reported is a candidate attaining that maximum, and at 50 or below      *)
(* nothing is detected and no type, name or version is reported            *)
C14_SingleBestFingerprint ==
    CmsProbed =>
        /\ (request.url.host /\ net.fetch_ok) =>
                /\ CmsInfo.detected <=> MaxSignalSum > 50
                /\ CmsInfo.detected =>
                        /\ Len(CmsInfo.type) = 1
                        /\ SignalSum(CmsInfo.type[1]) = MaxSignalSum
                        /\ CmsInfo.confidence = MaxSignalSum
                        /\ CmsInfo.name = <<cms_signatures[CmsInfo.type[1]].name>>
        /\ ~CmsInfo.detected =>
                /\ CmsInfo.type = <<>>
                /\ CmsInfo.name = <<>>
                /\ CmsInfo.version = <<>>

(* header and generator markup of WordPress and nothing else: exactly 50 *)
C14_Witness ==
    /\ CmsProbed /\ request.url.host /\ net.fetch_ok
    /\ MaxSignalSum = 50
    /\ SignalSum("wordpress") = 50
    /\ net.meta["wordpress"] # <<>>
    /\ ~CmsInfo.detected

(* the CMS probe has looked a captured version up in the vulnerability     *)
(* table of the detected CMS                                               *)
VersionLookedUp ==
    /\ CmsProbed
    /\ CmsInfo.detected
    /\ CmsInfo.version # <<>>
    /\ CmsInfo.type[1] \in DOMAIN known_vulnerabilities

FoundRecords == ProbeSlot.report[1].vulnerabilities.found

(* component i of a version, zero beyond its end *)
PartAt(v, i) == IF i <= Len(v) THEN v[i] ELSE 0

ParsesAsIntegers(v) == \A i \in DOMAIN v : v[i] >= 0

(* v, padded with zeros, is at most b in lexicographic order *)
PaddedAtMost(v, b) ==
    LET n == IF Len(v) >= Len(b) THEN Len(v) ELSE Len(b)
    IN  \/ \A i \in 1..n : PartAt(v, i) = PartAt(b, i)
        \/ \E i \in 1..n : /\ PartAt(v, i) < PartAt(b, i)
                            /\ \A j \in 1..(i - 1) : PartAt(v, j) = PartAt(b, j)

(* C15: a bucket of the vulnerability table applies to a version exactly   *)
(* when both parse as dot-separated non-negative integers and the version, *)
(* padded with zeros, is at most the bucket version in lexicographic       *)
(* order; an unparsable version matches no bucket and raises no error      *)
C15_BucketAppliesIffAtMost ==
    VersionLookedUp =>
        LET cms_vulns == known_vulnerabilities[CmsInfo.type[1]]
            v == CmsInfo.version[1]
        IN  \A b \in DOMAIN cms_vulns :
                (\E i \in DOMAIN FoundRecords :
                    FoundRecords[i].affected_version = cms_vulns[b].version)
                <=> /\ ParsesAsIntegers(v)
                    /\ ParsesAsIntegers(cms_vulns[b].version)
                    /\ PaddedAtMost(v, cms_vulns[b].version)

(* "4.8.0" falls under the bucket "4.8" and under no smaller one *)
C15_Witness ==
    /\ VersionLookedUp
    /\ CmsInfo.type = <<"wordpress">>
    /\ CmsInfo.version = <<(<<4, 8, 0>>)>>
    /\ \E i \in DOMAIN FoundRecords : FoundRecords[i].affected_version = <<4, 8>>

C15_WitnessUnparsable ==
    /\ VersionLookedUp
    /\ CmsInfo.version = <<(<<5, EmptyPart>>)>>
    /\ FoundRecords = <<>>

(* C16: the vulnerability correlator returns a set: no vulnerability id    *)
(* appears more than once in the found list, even when the version falls   *)
(* under several buckets                                                   *)
C16_NoVulnerabilityTwice ==
    CmsProbed =>
        \A i, j \in DOMAIN FoundRecords :
            FoundRecords[i].id = FoundRecords[j].id => i = j

(* the recommendation list of the Assessment, and the deduplicated list it *)
(* was cut from                                                            *)
Recommendations == Assessment.recommendations
Remaining == unique_recommendations(Assessment.results)

(* C17: the recommendation list holds no two equal strings and has at most *)
(* 15 entries                                                              *)
C17_RecommendationsDistinctAtMost15 ==
    Completed =>
        /\ Len(Recommendations) <= 15
        /\ \A i, j \in DOMAIN Recommendations :
               Recommendations[i] = Recommendations[j] => i = j

(* sixteen distinct recommendations were generated and fifteen returned *)
C17_Witness ==
    /\ Completed
    /\ Len(Remaining) = 16
    /\ Len(Recommendations) = 15
    /\ Recommendations[1] = "Replace FTP with SFTP or FTPS for secure file transfer"

(* C18: when more than 15 distinct recommendations remain after            *)
(* deduplication, the list has exactly 15 entries: the first 14 distinct   *)
(* recommendations, then one summary line (which is none of the            *)
(* recommendations themselves) standing for the omitted ones               *)
C18_SummaryLineWhenTruncated ==
    (Completed /\ Len(Remaining) > 15) =>
        /\ Len(Recommendations) = 15
        /\ SubSeq(Recommendations, 1, 14) = SubSeq(Remaining, 1, 14)
        /\ Recommendations[15] \notin SeqRange(Remaining)

(* the result a probe's outcome leaves in its slot *)
OutcomeResult(k) ==
    IF Returned(k) THEN outcome[k][2] ELSE ErrorOnly(outcome[k][2])

(* the Assessment built from the set of requested kinds and the probes'    *)
(* outcomes alone                                                          *)
AssessmentOf(kinds) ==
    LET results == [k \in kinds |-> OutcomeResult(k)]
    IN  [url             |-> request.url,
         score           |-> calculate_total_score(results),
         status          |-> "completed",
         results         |-> results,
         recommendations |-> generate_recommendations(results)]

(* C19: for fixed probe outcomes the final Assessment (score, results      *)
(* mapping, recommendation list and its order) is a function of the set of *)
(* requested kinds and of the outcomes: it is the same whatever order the  *)
(* probes complete in and whatever order and multiplicity the kinds have   *)
(* in the request                                                          *)
C19_AssessmentIndependentOfOrder ==
    Completed => Assessment = AssessmentOf(Requested)

(* the kinds requested in reverse order, one of them twice *)
C19_Witness ==
    /\ Completed
    /\ request.scan_types = <<"cms", "ports", "cms">>
    /\ tasks = <<"ports", "cms">>
    /\ Returned("ports") /\ Returned("cms")
    /\ Len(Assessment.recommendations) > 2

(* what the port probe returns for a target scanned on its own *)
OwnPortResult(s) ==
    port_scan([scheme |-> "https", host |-> TRUE],
              [resolves |-> TRUE, nmap_ok |-> sessions[s].nmap_ok,
               open |-> sessions[s].open])

(* C20: no mutable resource is shared between probes or sessions running   *)
(* at the same time: when two sessions against different targets          *)
(* interleave, the PortExposure result of each depends only on the scan of *)
(* its own target and is never changed by the other session's scan         *)
C20_SessionsDoNotInterfere ==
    phase = "shared" =>
        \A s \in Sessions :
            sessions[s].pc = "done" => sessions[s].result = <<OwnPortResult(s)>>

(* the place of a candidate in the order of the signature table *)
TablePlace(c) == CHOOSE i \in DOMAIN cms_order : cms_order[i] = c

(* C21: when two or more candidates reach the same highest confidence, the *)
(* one that comes first in the order of the signature table (wordpress,    *)
(* drupal, joomla, magento, opencart) is the one reported                  *)
C21_TieKeepsEarlierCandidate ==
    (CmsProbed /\ request.url.host /\ net.fetch_ok /\ CmsInfo.detected) =>
        \A c \in DOMAIN cms_signatures :
            SignalSum(c) = MaxSignalSum => TablePlace(CmsInfo.type[1]) <= TablePlace(c)

(* WordPress (markup and a path) and Drupal (two headers and a pattern)   *)
(* both reach 55                                                           *)
C21_Witness ==
    /\ CmsProbed /\ request.url.host /\ net.fetch_ok
    /\ SignalSum("wordpress") = 55
    /\ SignalSum("drupal") = 55
    /\ MaxSignalSum = 55
    /\ CmsInfo.type = <<"wordpress">>

(* C22: for each candidate at most two paths are requested; a path adds 25 *)
(* only when it is answered with status 200; a request that raises, or any *)
(* other status, adds nothing, leaves what the header, markup and content  *)
(* signals gave unchanged and does not stop the evaluation of the other    *)
(* paths and candidates                                                    *)
C22_PathSignalsDegradeSilently ==
    (CmsProbed /\ request.url.host /\ net.fetch_ok) =>
        LET Answered200(c) ==
                {i \in 1..2 : /\ cms_signatures[c].paths[i] \in net.paths200
                              /\ cms_signatures[c].paths[i] \notin net.path_errors}
            Others(c) ==
                20 * Cardinality(cms_signatures[c].headers \cap net.headers)
                + (IF cms_signatures[c].meta /\ net.meta[c] # <<>> THEN 30 ELSE 0)
                + 15 * Cardinality(cms_signatures[c].patterns \cap net.patterns)
            Sum(c) == Others(c) + 25 * Cardinality(Answered200(c))
        IN  /\ CmsInfo.detected <=> \E c \in DOMAIN cms_signatures : Sum(c) > 50
            /\ CmsInfo.detected =>
                    CmsInfo.confidence = Sum(CmsInfo.type[1])

(* the first WordPress path raises, the second answers 200, the third  *)
(* (never requested) would answer 200 too                                  *)
C22_Witness ==
    /\ CmsProbed /\ request.url.host /\ net.fetch_ok
    /\ net.path_errors = {"/wp-admin/"}
    /\ net.paths200 = {"/wp-content/", "/wp-includes/"}
    /\ CmsInfo.type = <<"wordpress">>
    /\ CmsInfo.confidence = 75

(* the ids severity_map names, and the order of the severities *)
SeverityListed == [id \in {"CVE-2019-8942", "CVE-2018-7600", "CVE-2018-6389",
                            "CVE-2017-8917"} |->
                      CASE id = "CVE-2018-7600" -> "critical"
                        [] id = "CVE-2018-6389" -> "medium"
                        [] OTHER -> "high"]
SeverityRank == [s \in {"low", "medium", "high", "critical"} |->
                    CASE s = "low" -> 1 [] s = "medium" -> 2
                      [] s = "high" -> 3 [] OTHER -> 4]

(* C23: each matched vulnerability carries the severity severity_map gives *)
(* its id, or medium when the id is not in the map; the risk level is the  *)
(* greatest severity among the matched ones (critical > high > medium >    *)
(* low); with no matched vulnerability it is low and the list is empty     *)
C23_SeverityAndRiskLevel ==
    CmsProbed =>
        LET vulnerabilities == ProbeSlot.report[1].vulnerabilities
        IN  /\ \A i \in DOMAIN FoundRecords :
                   FoundRecords[i].severity =
                       IF FoundRecords[i].id \in DOMAIN SeverityListed
                       THEN SeverityListed[FoundRecords[i].id]
                       ELSE "medium"
            /\ vulnerabilities.count = Len(FoundRecords)
            /\ FoundRecords = <<>> => vulnerabilities.risk_level = "low"
            /\ FoundRecords # <<>> =>
                   /\ \E i \in DOMAIN FoundRecords :
                          FoundRecords[i].severity = vulnerabilities.risk_level
                   /\ \A i \in DOMAIN FoundRecords :
                          SeverityRank[FoundRecords[i].severity]
                              <= SeverityRank[vulnerabilities.risk_level]

(* Drupal 7.57: a critical vulnerability of the map next to ids the map    *)
(* does not name                                                           *)
C23_Witness ==
    /\ VersionLookedUp
    /\ CmsInfo.type = <<"drupal">>
    /\ \E i \in DOMAIN FoundRecords :
           FoundRecords[i].id = "CVE-2017-6925" /\ FoundRecords[i].severity = "medium"
    /\ \E i \in DOMAIN FoundRecords : FoundRecords[i].severity = "critical"
    /\ ProbeSlot.report[1].vulnerabilities.risk_level = "critical"

(* a WordPress newer than every bucket: nothing matched *)
C23_WitnessNone ==
    /\ VersionLookedUp
    /\ CmsInfo.version = <<(<<6, 2>>)>>
    /\ FoundRecords = <<>>
    /\ ProbeSlot.report[1].vulnerabilities.risk_level = "low"

(* the recommendations of one kind of probe, none when the kind has no slot *)
KindRecommendations(results, k) ==
    IF k \notin DOMAIN results THEN <<>>
    ELSE CASE k = "ssl"     -> _get_ssl_recommendations(results[k])
           [] k = "ports"   -> _get_port_recommendations(results[k])
           [] k = "headers" -> _get_header_recommendations(results[k])
           [] k = "cms"     -> _get_cms_recommendations(results[k])
           [] k = "ddos"    -> _get_ddos_recommendations(results[k])

(* transport, port, header, technology, resilience, general *)
InClaimedOrder(results) ==
    KindRecommendations(results, "ssl") \o KindRecommendations(results, "ports")
    \o KindRecommendations(results, "headers") \o KindRecommendations(results, "cms")
    \o KindRecommendations(results, "ddos") \o _get_general_recommendations(results)

(* the position of the first occurrence of s in list *)
FirstSeen(list, s) ==
    CHOOSE i \in DOMAIN list :
        list[i] = s /\ \A j \in 1..(i - 1) : list[j] # s

AlwaysApplicable == {"Regularly update the software",
                     "Use strong passwords and two-factor authentication"}

(* C25: the two always-applicable general recommendations (keep the        *)
(* software updated; use strong credentials) are in every returned list,   *)
(* for every results mapping, after all probe-specific recommendations     *)
C25_GeneralRecommendationsAlwaysLast ==
    Completed =>
        /\ \A g \in AlwaysApplicable :
               \E i \in DOMAIN Recommendations : Recommendations[i] = g
        /\ \A i, j \in DOMAIN Recommendations :
               (/\ Recommendations[i] \in AlwaysApplicable
                /\ \E k \in Kinds :
                       Recommendations[j]
                           \in SeqRange(KindRecommendations(Assessment.results, k)))
               => j < i

(* C26: the probe-specific rules read only the slots that hold a Success:  *)
(* a mapping with a Failure in a slot gives the same list as the mapping   *)
(* without that slot                                                       *)
C26_FailureSlotAsAbsent ==
    Completed =>
        Recommendations = generate_recommendations(WithoutFailures(Assessment.results))


(* the ports _get_port_recommendations treats as databases *)
DatabasePorts == {3306, 5432, 1433}

(* C27: whenever the Success of the port probe lists a database port among *)
(* its dangerous ports, at any position and next to any number of other    *)
(* dangerous ports, the list holds the recommendation to close direct      *)
(* access to the database from the internet                                *)
C27_DatabasePortAlwaysReported ==
    (/\ Completed
     /\ "ports" \in DOMAIN Assessment.results
     /\ IsSuccess(Assessment.results["ports"])) =>
        LET dangerous == Assessment.results["ports"].report[1].dangerous_ports
        IN  (\E i \in DOMAIN dangerous : dangerous[i].port \in DatabasePorts) =>
                \E i \in DOMAIN dangerous :
                    /\ dangerous[i].port \in DatabasePorts
                    /\ ("Close direct access to the database ("
                            \o dangerous[i].service \o ") from the internet")
                       \in SeqRange(Recommendations)


(* how often kind k stands in the task list *)
TimesListed(k) == Cardinality({i \in DOMAIN tasks : tasks[i] = k})

(* C28: start_scan does not retry: each requested probe is invoked exactly *)
(* once in the session, and the probe of a slot that resolved to a Failure *)
(* is never invoked again                                                  *)
C28_NoRetry ==
    [][/\ \A k \in Kinds :
            /\ coro[k] \in {"returned", "raised"} => coro'[k] = coro[k]
            /\ (coro'[k] = "running" /\ coro[k] # "running") => coro[k] = "created"
            /\ (coro'[k] = "created" /\ coro[k] # "created") => phase = "idle"
       /\ phase' = "awaiting" =>
            \A k \in Kinds :
                TimesListed(k)' = IF k \in SeqRange(request'.scan_types) THEN 1 ELSE 0
       /\ phase' = "completed" =>
            \A k \in Kinds :
                k \in SeqRange(request'.scan_types) <=> coro'[k] \in {"returned", "raised"}
      ]_vars

(* a kind requested twice whose probe raised, and a later probe that       *)
(* returned: the handler went on and completed                             *)
C28_Witness ==
    /\ Completed
    /\ \E i, j \in DOMAIN request.scan_types :
           /\ i # j
           /\ request.scan_types[i] = request.scan_types[j]
           /\ request.scan_types[i] \in Kinds
           /\ Raised(request.scan_types[i])
           /\ IsFailure(Assessment.results[request.scan_types[i]])
    /\ \E i, j \in DOMAIN tasks :
           i < j /\ Raised(tasks[i]) /\ Returned(tasks[j])


(* the port probe ran to the end of scan *)
PortsProbed == Probed /\ ProbeKind = "ports" /\ IsSuccess(ProbeSlot)
PortReport == ProbeSlot.report[1]

(* the list _simple_port_scan tries *)
FallbackList == {21, 22, 23, 25, 53, 80, 443, 3389}

(* C29: the connect scan runs only after the nmap scan has failed, once;   *)
(* its findings alone are the open-port list of a Success, which holds     *)
(* only ports of {21, 22, 23, 25, 53, 80, 443, 3389} whose connect         *)
(* succeeded; a refused or timed-out port is skipped and the probe does    *)
(* not fail                                                                *)
C29_FallbackConnectScan ==
    (Probed /\ ProbeKind = "ports" /\ request.url.host /\ net.resolves) =>
        /\ IsSuccess(ProbeSlot)
        /\ \A i, j \in DOMAIN PortReport.open_ports :
               PortReport.open_ports[i] = PortReport.open_ports[j] => i = j
        /\ net.nmap_ok => SeqRange(PortReport.open_ports) = net.open
        /\ ~net.nmap_ok =>
               SeqRange(PortReport.open_ports) = net.open \cap FallbackList

(* nmap failed; 22 and 80 accept the connection and are reported, 3306     *)
(* accepts it too but is not on the list, 21 and 23 refuse                 *)
C29_Witness ==
    /\ PortsProbed
    /\ ~net.nmap_ok
    /\ net.open = {22, 80, 3306}
    /\ PortReport.open_ports = <<22, 80>>


(* the ports of a list of dangerous-port records *)
PortsOf(records) == {records[i].port : i \in DOMAIN records}

(* every open port is in open_ports and in exactly one of dangerous_ports  *)
(* and secure_ports; the secure ones are among 22, 53, 80, 443; a          *)
(* dangerous port has the risk of the table, or medium outside it          *)
PortPartition ==
    /\ SeqRange(PortReport.open_ports)
           = PortsOf(PortReport.dangerous_ports) \cup SeqRange(PortReport.secure_ports)
    /\ PortsOf(PortReport.dangerous_ports) \cap SeqRange(PortReport.secure_ports) = {}
    /\ Len(PortReport.open_ports)
           = Len(PortReport.dangerous_ports) + Len(PortReport.secure_ports)
    /\ SeqRange(PortReport.secure_ports)
           = SeqRange(PortReport.open_ports) \cap {22, 53, 80, 443}
    /\ \A i \in DOMAIN PortReport.dangerous_ports :
           PortReport.dangerous_ports[i].risk
               = IF PortReport.dangerous_ports[i].port \in DOMAIN dangerous_ports
                 THEN dangerous_ports[PortReport.dangerous_ports[i].port]
                 ELSE "medium"

(* the score of the same probe had port p been closed *)
ScoreWithout(p) ==
    port_scan(request.url, [net EXCEPT !.open = @ \ {p}]).score[1]

(* C30 as stated: the classification is a partition, only 22, 53, 80, 443  *)
(* are secure, and every other open port, 993 and 995 included, is         *)
(* dangerous and lowers the port score                                     *)
C30_EveryDangerousPortLowersScore ==
    PortsProbed =>
        /\ PortPartition
        /\ \A p \in PortsOf(PortReport.dangerous_ports) :
               ProbeSlot.score[1] < ScoreWithout(p)

(* C30: the classification is a partition, only 22, 53, 80, 443 are        *)
(* secure, and every other open port, 993 and 995 included, is dangerous   *)
(* (risk medium outside the table); it lowers the port score unless the    *)
(* score without it is 0 already, where the score stays 0                  *)
C30_DangerousPortLowersScoreAboveZero ==
    PortsProbed =>
        /\ PortPartition
        /\ \A p \in PortsOf(PortReport.dangerous_ports) :
               IF ScoreWithout(p) > 0
               THEN ProbeSlot.score[1] < ScoreWithout(p)
               ELSE ProbeSlot.score[1] = 0

(* port 993 is open next to 22 and 80: it is dangerous with risk medium and *)
(* takes the score from 110 capped to 100 down to 90                       *)
C30_Witness ==
    /\ PortsProbed
    /\ net.nmap_ok
    /\ net.open = {22, 80, 993}
    /\ PortReport.secure_ports = <<22, 80>>
    /\ PortReport.dangerous_ports = <<[port |-> 993, service |-> "imaps", risk |-> "medium"]>>
    /\ ProbeSlot.score = <<90>>
    /\ ScoreWithout(993) = 100

(* everything but 993 is open and the score is 0; opening 993 leaves it 0  *)
C30_WitnessSaturated ==
    /\ PortsProbed
    /\ 993 \in PortsOf(PortReport.dangerous_ports)
    /\ ScoreWithout(993) = 0
    /\ ProbeSlot.score = <<0>>

====
